---- MODULE Spec2Model ----
(***************************************************************************)
(* AutoSorter: the ingestion-and-dispatch pipeline.                        *)
(*   src/src/worker.py   WorkerPool (submit, _process_file, the ledger)    *)
(*   src/src/mover.py    move_file                                         *)
(*   src/src/watcher.py  FileWatcher (debounce, readiness wait)            *)
(* Time is counted in ticks, TicksPerSecond ticks to the second, so that   *)
(* the ledger's sub-second tolerance and the mover's one-second timestamp  *)
(* resolution are both visible.  Scores are hundredths (0.50 is 50).       *)
(***************************************************************************)
EXTENDS Integers, Sequences, FiniteSets, TLC

\* ------------------------------------------------------------- bounds
TicksPerSecond == 2
MaxClock == 2
MaxVersions == 2
MaxSubmits == 2
MaxRestarts == 1
MaxFaults == 1
MaxEvents == 2
WatchSlack == 1
MaxJobs == 3

\* ------------------------------------------------- program constants
\* worker.py:37  config.get('confidence_threshold', 0.50), in hundredths
threshold == 50
\* worker.py:38  config.get('worker_threads', 2)
num_workers == 2
\* worker.py:134  abs(current_mtime - recorded_mtime) < 1.0
ToleranceSeconds == 1
\* watcher.py:46  self._debounce_seconds = 5
_debounce_seconds == 5
\* watcher.py:166  max_retries = 15
max_retries == 15

\* ---------------------------------------------------------- the world
\* Basenames of the files of the watched directory (one flat directory:
\* the observer is scheduled with recursive=False).
Files == {"a.pdf", "b.pdf"}
OneWorkerMore == 1..(num_workers + 1)
\* worker.py:39  ThreadPoolExecutor(max_workers=self.num_workers)
Workers == 1..num_workers
Time == 0..MaxClock
\* "no timestamp": a basename absent from the ledger, an unreadable mtime
NoTime == -1
\* a path at which no file exists
NoFile == [mtime |-> NoTime, id |-> 0]
\* categories.json keys, and the classifier's sentinel
Categories == {"ML", "CS"}
Unknown == "UNKNOWN"
\* main.py:39  the mock's category when it has none, and its fixed score
MockUnknown == "Unknown"
MockScore == 75
\* what extract_text can hand back: nothing, blanks only, real text
Texts == {"", " ", "notes"}
\* representative classifier scores: below, at and above the threshold
Scores == {30, 50, 82}
\* the mover's timestamp suffix; NoStamp is the plain name
NoStamp == -1
Stamp(clock) == clock \div TicksPerSecond
Stamps == {NoStamp} \cup {Stamp(t) : t \in Time}
DestPaths == [cat : Categories \cup {Unknown}, base : Files, ts : Stamps]

\* Paths the observer reports: the files, and one with an extension of
\* ignored_extensions and one with an extension outside the supported set
WatchPaths == Files \cup {"c.tmp", "d.txt"}
\* os.path.splitext(filename)[1].lower()
Ext(p) == CASE p \in {"a.pdf", "b.pdf"} -> ".pdf"
            [] p = "c.tmp" -> ".tmp"
            [] OTHER -> ".txt"
\* config.py:55-63  ALL_SUPPORTED_EXTENSIONS
ALL_SUPPORTED_EXTENSIONS ==
    {".pdf", ".docx", ".pptx", ".jpg", ".jpeg", ".png", ".py", ".ipynb", ".c", ".lex"}
\* config ignored_extensions, as the stress test sets it
ignored_extensions == {".crdownload", ".tmp", ".part", ".partial"}
FStates == {"ready", "locked", "empty", "big"}
\* a thread slot no notification has used
NoWait == [file |-> "", pc |-> "none", attempt |-> 0]

Abs(x) == IF x < 0 THEN -x ELSE x

VARIABLES
    now,       \* wall clock, in ticks
    src,       \* watched directory: basename -> [mtime, id] or NoFile
    dst,       \* destination tree: DestPaths -> id of the file there, 0 if none
    nextId,    \* identity given to the next file version that appears
    ledger,    \* WorkerPool.processed_files: basename -> timestamp or NoTime
    disk,      \* processed_files.json as last written
    queue,     \* ThreadPoolExecutor work queue: jobs accepted, not started
    wk,        \* the worker threads: position in _process_file and its locals
    lastLog,   \* how the job that ended last ended: [file, action]
    submits,   \* number of WorkerPool.submit calls so far
    faults,    \* number of failures injected so far (I/O errors, exceptions)
    handled,   \* per basename [m, ep]: the mtime of the version whose job
               \* completed and was journaled and the run it happened in;
               \* NoHandled if none or the file changed since
    epoch,     \* number of process restarts so far
    fstate,    \* per file: "ready", "locked" (cannot be opened), "empty"
               \* (size 0) or "big" (over max_file_size_mb)
    recent,    \* FileWatcher._recent_files: path -> time of the last
               \* notification that passed the debounce, or NoTime
    wt,        \* the _wait_and_submit threads, one slot per notification
    notes,     \* the notifications handled so far: [path, t, started]
    phase,     \* where the process is in its life: "running", then the
               \* steps of shutdown_handler
    mover,     \* a shutil.move between two volumes, while it is under way
    calls,     \* the last results of the functions called on their own
    gone,      \* the wait threads whose file was deleted while they waited
    scan,      \* FileWatcher._scan_existing: where it is, the names of its
               \* listing it has not looked at yet, the paths it submitted
    upload     \* the classification server: temp.jpg, the keys added to
               \* CATEGORY_MAPPING, and the /upload requests in flight

watchVars == <<recent, wt, notes>>

auxVars == <<phase, mover, calls, gone, scan, upload>>

vars == <<now, src, dst, nextId, ledger, disk, queue, wk, lastLog, submits,
          faults, handled, epoch, fstate, recent, wt, notes, phase, mover,
          calls, gone, scan, upload>>

\* the ledger with no entry
EmptyLedger == [f \in Files |-> NoTime]

\* a worker thread with no job; snap is the map json.dump is iterating over
\* as it was when the pass began
Idle == [pc |-> "idle", file |-> "", m |-> NoTime, text |-> "",
         cat |-> "", score |-> 0, res |-> "", snap |-> EmptyLedger]

NoHandled == [m |-> NoTime, ep |-> 0]

NoLog == [file |-> "", action |-> ""]

\* no move between volumes is under way
NoMove == [pc |-> "idle", file |-> "", cat |-> "", ts |-> NoStamp]

\* the startup scan has not run
NoScan == [pc |-> "off", todo |-> {}, sent |-> {}]

\* no function has been called on its own yet
NoCalls == [extract |-> [done |-> FALSE], classify |-> [done |-> FALSE],
            load |-> [done |-> FALSE], decide |-> [done |-> FALSE]]

Exists(s, f) == s[f].id # 0

\* ------------------------------------------------------ backing store
\* What processed_files.json can be: not there, a complete dump of a
\* ledger ("map"), the beginning of a dump or an empty file ("partial"),
\* the bytes of two dumps on top of each other ("garbled"), a file that
\* cannot be opened ("unreadable"), text that is not JSON ("text"), bytes
\* that are not UTF-8 ("badbytes"), JSON that is not an object ("shape").
StoreKinds == {"missing", "map", "partial", "garbled", "unreadable", "text",
               "badbytes", "shape"}

Missing == [kind |-> "missing", map |-> EmptyLedger]

Whole(led) == [kind |-> "map", map |-> led]

Broken(kind) == [kind |-> kind, map |-> EmptyLedger]

\* ------------------------------------------------------------ ledger
\* os.path.getmtime(filepath): NoTime stands for the OSError
getmtime(s, f) == IF Exists(s, f) THEN s[f].mtime ELSE NoTime

ToleranceInclusive(a, b) == Abs(a - b) <= ToleranceSeconds * TicksPerSecond

\* _is_already_processed line 134: abs(current_mtime - recorded_mtime) < 1.0
WithinTolerance(a, b) == Abs(a - b) < ToleranceSeconds * TicksPerSecond

AlreadyProcessedFailClosed(led, s, f) ==
    led[f] # NoTime /\ (getmtime(s, f) = NoTime \/ WithinTolerance(getmtime(s, f), led[f]))

\* WorkerPool._is_already_processed
_is_already_processed(led, s, f) ==
    IF led[f] = NoTime THEN FALSE
    ELSE IF getmtime(s, f) = NoTime THEN FALSE
    ELSE WithinTolerance(getmtime(s, f), led[f])

\* WorkerPool._mark_processed, the timestamp it records
MarkedTime(s, f, clock) ==
    IF getmtime(s, f) # NoTime THEN getmtime(s, f) ELSE clock

\* WorkerPool._mark_processed, the in-memory update
MarkProcessedAlone(led, s, f, clock) ==
    [EmptyLedger EXCEPT ![f] = MarkedTime(s, f, clock)]

_mark_processed(led, s, f, clock) ==
    [led EXCEPT ![f] = MarkedTime(s, f, clock)]

\* WorkerPool._save_processed_files: the whole map is written; an OSError
\* is logged and the file is left as it was
_save_processed_files(led, dsk, oserror) == IF oserror THEN dsk ELSE Whole(led)

\* WorkerPool._load_processed_files.  OSError and json.JSONDecodeError are
\* caught and give {}; the UnicodeDecodeError of a file that is not UTF-8
\* is neither and leaves the function; JSON of another shape is returned
\* as json.load gave it.  [raises, dict, ledger]: whether it raised,
\* whether what it returned is a dict, and the mapping it returned.
_load_processed_files(dsk) ==
    CASE dsk.kind = "map" ->
            [raises |-> FALSE, dict |-> TRUE, ledger |-> dsk.map]
      [] dsk.kind \in {"missing", "unreadable", "partial", "garbled", "text"} ->
            [raises |-> FALSE, dict |-> TRUE, ledger |-> EmptyLedger]
      [] dsk.kind = "badbytes" ->
            [raises |-> TRUE, dict |-> FALSE, ledger |-> EmptyLedger]
      [] OTHER ->
            [raises |-> FALSE, dict |-> FALSE, ledger |-> EmptyLedger]

\* ------------------------------------------------------------- mover
\* move_file, lines 39-48: the destination path, timestamped on conflict
TargetPathPlain(d, f, cat, clock) ==
    [cat |-> cat, base |-> f, ts |-> NoStamp]

TargetPath(d, f, cat, clock) ==
    LET plain == [cat |-> cat, base |-> f, ts |-> NoStamp]
    IN IF d[plain] # 0
       THEN [cat |-> cat, base |-> f, ts |-> Stamp(clock)]
       ELSE plain

\* move_file: shutil.move replaces whatever is at the target path; it
\* raises (ok = FALSE) when the source is gone or on an I/O failure
move_file(s, d, f, cat, clock, ioerror) ==
    LET target == TargetPath(d, f, cat, clock)
    IN IF ~Exists(s, f) \/ ioerror
       THEN [ok |-> FALSE, src |-> s, dst |-> d, path |-> target]
       ELSE [ok |-> TRUE,
             src |-> [s EXCEPT ![f] = NoFile],
             dst |-> [d EXCEPT ![target] = s[f].id],
             path |-> target]

\* ---------------------------------------------------------- pipeline
IsBlankOnlyEmpty(text) == text = ""

\* _process_file line 85: not text or not text.strip()
IsBlank(text) == text \in {"", " "}

ShouldMoveStrict(score) == score > threshold

\* _process_file line 98: score >= self.threshold
ShouldMove(score) == score >= threshold

\* classifier.classify(text): the results the classifier may give.  Both
\* classifiers' answers for real text lie in Categories x Scores; the
\* engine answers the sentinel for blank text.
classify(text) ==
    IF IsBlank(text) THEN {[cat |-> Unknown, score |-> 0]}
    ELSE [cat : Categories, score : Scores]

\* the list a classifier holds after precompute_categories: none, or the
\* keys of categories.json in their order
CategoryLists == {<<>>, <<"ML", "CS">>}

\* the classifier's sentinel answer
Sentinel == [cat |-> Unknown, score |-> 0]

EngineNoBlankCheck(names, text) ==
    IF names = <<>> THEN {Sentinel}
    ELSE [cat : {names[i] : i \in 1..Len(names)}, score : Scores]

\* ClassificationEngine.classify(text), lines 77-114: the answers it may
\* give with category_names = names
ClassificationEngine_classify(names, text) ==
    IF names = <<>> THEN {Sentinel}
    ELSE IF IsBlank(text) THEN {Sentinel}
    ELSE [cat : {names[i] : i \in 1..Len(names)}, score : Scores]

\* MockClassifier.classify(text), main.py:37-39
MockClassifier_classify(names, text) ==
    {[cat |-> IF names # <<>> THEN names[1] ELSE MockUnknown,
      score |-> MockScore]}

LedgerOnErrorMarks(led, s, f, clock) == _mark_processed(led, s, f, clock)

\* _process_file lines 111-114: the except branch only logs
LedgerOnError(led, s, f, clock) == led

\* ------------------------------------------------------------- Init
\* ------------------------------------ the classification server
\* file_analysis/server.py: a Flask application with one route.  Each
\* request is handled in a thread of its own; the handler keeps the
\* uploaded image in the file temp.jpg of the working directory.

\* the handler threads
Requests == {1, 2}

\* what is printed on an uploaded picture
ImageTexts == {"networks", "digital", "things", " "}

\* no picture: temp.jpg does not exist yet
NoImage == "none"

\* pytesseract.image_to_string on a picture
image_to_string(img) == img

\* the one-word answer of the language model (temperature 0), as the
\* characters of response.choices[0].message.content.strip()
classify_question_paper(text) ==
    CASE text = "networks" -> <<"C", "N", ".">>
      [] text = "digital"  -> <<"*", "D", "S", "D", "*">>
      [] OTHER             -> <<"I", "O", "T">>

AlphaNumeric == {"C", "N", "D", "S", "I", "O", "T"}

\* re.sub(r'[^a-zA-Z0-9]', '', input_string)
sanitize_output(chars) == SelectSeq(chars, LAMBDA c : c \in AlphaNumeric)

\* CATEGORY_MAPPING.get(subcat, "Others"), for the keys of the table as
\* written in the source that the answers above can hit
CATEGORY_MAPPING(subcat) ==
    CASE subcat = <<"C", "N">>      -> "Sem - 3"
      [] subcat = <<"D", "S", "D">> -> "Sem - 2"
      [] OTHER                      -> "Others"

NoRequest == [pc |-> "idle", image |-> NoImage, text |-> "",
              resp |-> [status |-> 0, subcategory |-> <<>>,
                        main_category |-> ""]]

NoUploads == [temp |-> NoImage, added |-> {},
              req |-> [r \in Requests |-> NoRequest]]

\* the response classify() gives for a picture when nothing interferes
Answer(img) ==
    IF IsBlank(image_to_string(img))
    THEN [status |-> 200, subcategory |-> <<>>, main_category |-> "no text"]
    ELSE LET subcat == sanitize_output(
                           classify_question_paper(image_to_string(img)))
         IN [status |-> 200, subcategory |-> subcat,
             main_category |-> CATEGORY_MAPPING(subcat)]

OtherVars == <<now, src, dst, nextId, ledger, disk, queue, wk, lastLog,
               submits, faults, handled, epoch, fstate, recent, wt, notes,
               phase, mover, calls, gone, scan>>

\* a POST /upload arrives; without a file part it is answered 400 at once
Receive(r, img) ==
    /\ upload.req[r].pc = "idle"
    /\ upload' = [upload EXCEPT !.req[r] =
                    IF img = NoImage
                    THEN [NoRequest EXCEPT !.pc = "done",
                                           !.resp.status = 400]
                    ELSE [NoRequest EXCEPT !.pc = "save", !.image = img]]
    /\ UNCHANGED OtherVars

\* file.save("temp.jpg")
Save(r) ==
    /\ upload.req[r].pc = "save"
    /\ upload' = [upload EXCEPT !.temp = upload.req[r].image,
                                !.req[r].pc = "ocr"]
    /\ UNCHANGED OtherVars

\* extract_text_from_image("temp.jpg"), and the answer for a picture
\* without text
Ocr(r) ==
    /\ upload.req[r].pc = "ocr"
    /\ LET ex_text == image_to_string(upload.temp) IN
       upload' = [upload EXCEPT !.req[r] =
                    IF IsBlank(ex_text)
                    THEN [@ EXCEPT !.pc = "done", !.text = ex_text,
                                   !.resp = Answer(upload.temp)]
                    ELSE [@ EXCEPT !.pc = "classify", !.text = ex_text]]
    /\ UNCHANGED OtherVars

\* classify_question_paper, sanitize_output, the table lookup, the entry
\* for an unknown subject, and the JSON answer
Respond(r) ==
    /\ upload.req[r].pc = "classify"
    /\ LET subcategory == classify_question_paper(upload.req[r].text)
           subcat == sanitize_output(subcategory)
       IN upload' = [upload EXCEPT
                       !.added =
                           IF CATEGORY_MAPPING(subcategory) # "Others"
                           THEN @ ELSE @ \cup {subcategory},
                       !.req[r].pc = "done",
                       !.req[r].resp =
                           [status |-> 200, subcategory |-> subcat,
                            main_category |->
                               IF subcat \in upload.added THEN "Others"
                               ELSE CATEGORY_MAPPING(subcat)]]
    /\ UNCHANGED OtherVars

\* the response has gone out and the thread takes the next request
Close(r) ==
    /\ upload.req[r].pc = "done"
    /\ upload' = [upload EXCEPT !.req[r] = NoRequest]
    /\ UNCHANGED OtherVars

Init ==
    /\ now = 0
    /\ src = [f \in Files |-> NoFile]
    /\ dst = [p \in DestPaths |-> 0]
    /\ nextId = 1
    /\ disk = Missing
    /\ ledger = _load_processed_files(Missing).ledger
    /\ queue = <<>>
    /\ wk = [w \in Workers |-> Idle]
    /\ lastLog = NoLog
    /\ submits = 0
    /\ faults = 0
    /\ handled = [f \in Files |-> NoHandled]
    /\ epoch = 0
    /\ fstate = [f \in Files |-> "ready"]
    /\ recent = [p \in WatchPaths |-> NoTime]
    /\ wt = [i \in 1..MaxEvents |-> NoWait]
    /\ notes = <<>>
    /\ phase = "running"
    /\ mover = NoMove
    /\ calls = NoCalls
    /\ gone = {}
    /\ scan = NoScan
    /\ upload = NoUploads

\* ------------------------------------------------------ environment
\* A change to f while jobs for it are in flight: those jobs no longer
\* stand for one known version of the file.
Unversion(job, f) == IF job.file = f THEN [job EXCEPT !.m = NoTime] ELSE job

Touched(f) ==
    /\ queue' = [i \in 1..Len(queue) |-> Unversion(queue[i], f)]
    /\ wk' = [w \in Workers |-> Unversion(wk[w], f)]

Tick ==
    /\ UNCHANGED auxVars
    /\ now < MaxClock
    /\ now' = now + 1
    /\ UNCHANGED <<fstate, recent, wt, notes>>
    /\ UNCHANGED <<src, dst, nextId, ledger, disk, queue, wk, lastLog, submits,
                   faults, handled, epoch>>

\* A file appears in the watched directory; its mtime is whatever the
\* tool that put it there gave it (a download, a copy or a move back that
\* preserves times).
Drop(f, m) ==
    /\ UNCHANGED auxVars
    /\ ~Exists(src, f)
    /\ nextId <= MaxVersions
    /\ m <= now
    /\ src' = [src EXCEPT ![f] = [mtime |-> m, id |-> nextId]]
    /\ nextId' = nextId + 1
    /\ handled' = [handled EXCEPT ![f] = IF @.m = m THEN @ ELSE NoHandled]
    /\ Touched(f)
    /\ UNCHANGED <<fstate, recent, wt, notes>>
    /\ UNCHANGED <<now, dst, ledger, disk, lastLog, submits, faults, epoch>>

\* The file is written again: new content, mtime = now.
Modify(f) ==
    /\ UNCHANGED auxVars
    /\ Exists(src, f)
    /\ nextId <= MaxVersions
    /\ src[f].mtime < now
    /\ src' = [src EXCEPT ![f] = [mtime |-> now, id |-> nextId]]
    /\ nextId' = nextId + 1
    /\ handled' = [handled EXCEPT ![f] = NoHandled]
    /\ Touched(f)
    /\ UNCHANGED <<fstate, recent, wt, notes>>
    /\ UNCHANGED <<now, dst, ledger, disk, lastLog, submits, faults, epoch>>

\* Another process deletes the file.
Delete(f) ==
    /\ UNCHANGED auxVars
    /\ Exists(src, f)
    /\ src' = [src EXCEPT ![f] = NoFile]
    /\ fstate' = [fstate EXCEPT ![f] = "ready"]
    /\ Touched(f)
    /\ UNCHANGED watchVars
    /\ UNCHANGED <<now, dst, nextId, ledger, disk, lastLog, submits, faults,
                   handled, epoch>>

\* ------------------------------------------------------- WorkerPool
\* WorkerPool.submit, the effect on the work queue
submit(q, led, s, f) ==
    IF _is_already_processed(led, s, f) THEN q
    ELSE Append(q, [Idle EXCEPT !.file = f, !.m = getmtime(s, f)])

\* WorkerPool.submit(filepath), called by the watcher, the startup scan
\* or any other caller
Submit(f) ==
    /\ UNCHANGED auxVars
    /\ submits < MaxSubmits
    /\ submits' = submits + 1
    /\ queue' = submit(queue, ledger, src, f)
    /\ UNCHANGED <<fstate, recent, wt, notes>>
    /\ UNCHANGED <<now, src, dst, nextId, ledger, disk, wk, lastLog, faults,
                   handled, epoch>>

BeginNoCheck(w) ==
    /\ UNCHANGED auxVars
    /\ wk[w].pc = "idle"
    /\ queue # <<>>
    /\ queue' = Tail(queue)
    /\ wk' = [wk EXCEPT ![w] = [Head(queue) EXCEPT !.pc = "extract"]]
    /\ UNCHANGED <<fstate, recent, wt, notes>>
    /\ UNCHANGED <<now, src, dst, nextId, ledger, disk, lastLog, submits,
                   faults, handled, epoch>>

\* A free worker thread starts _process_file on the oldest queued job;
\* lines 71-79: a file that no longer exists ends the job at once.
Begin(w) ==
    /\ UNCHANGED auxVars
    /\ wk[w].pc = "idle"
    /\ queue # <<>>
    /\ LET job == Head(queue) IN
        /\ queue' = Tail(queue)
        /\ IF Exists(src, job.file)
           THEN /\ wk' = [wk EXCEPT ![w] = [job EXCEPT !.pc = "extract"]]
                /\ UNCHANGED lastLog
           ELSE /\ lastLog' = [file |-> job.file, action |-> "ABSENT"]
                /\ UNCHANGED wk
    /\ UNCHANGED <<fstate, recent, wt, notes>>
    /\ UNCHANGED <<now, src, dst, nextId, ledger, disk, submits, faults,
                   handled, epoch>>

\* the extensions a path can have: the supported ones, another one, none
Extensions == ALL_SUPPORTED_EXTENSIONS \cup {".txt", ""}

\* what a per-format extractor (_extract_pdf, _extract_docx, ...) does with
\* a file: it raises (corrupt or missing file, missing library), or it
\* returns the text it found
ExtractorRaises == [raises |-> TRUE, text |-> ""]

ExtractorOutcomes == {ExtractorRaises} \cup [raises : {FALSE}, text : Texts]

ExtractNoCatch(ext, inner) ==
    IF ext \in ALL_SUPPORTED_EXTENSIONS
    THEN [raised |-> inner.raises, text |-> inner.text]
    ELSE [raised |-> FALSE, text |-> ""]

\* extract_text(filepath): the dispatch on the extension inside
\* try/except Exception; [raised, text] is whether the call raised and
\* what it returned
extract_text(ext, inner) ==
    IF ext \in ALL_SUPPORTED_EXTENSIONS
    THEN IF inner.raises
         THEN [raised |-> FALSE, text |-> ""]
         ELSE [raised |-> FALSE, text |-> inner.text]
    ELSE [raised |-> FALSE, text |-> ""]

\* extract_text(filepath) as _process_file meets it: what the extractor
\* finds in the file; when the file is no longer there the extractor
\* fails to open it
Extracted(s, f) ==
    {extract_text(Ext(f), inner).text :
        inner \in IF Exists(s, f) THEN ExtractorOutcomes ELSE {ExtractorRaises}}

ExtractSkipsDecide(w) ==
    /\ UNCHANGED auxVars
    /\ wk[w].pc = "extract"
    /\ \E text \in Extracted(src, wk[w].file) :
        wk' = [wk EXCEPT ![w] =
                 IF IsBlank(text)
                 THEN [@ EXCEPT !.pc = "mark", !.text = text,
                                !.res = "KEPT (no text)"]
                 ELSE [@ EXCEPT !.pc = "mark", !.text = text,
                                !.res = "KEPT"]]
    /\ UNCHANGED <<fstate, recent, wt, notes>>
    /\ UNCHANGED <<now, src, dst, nextId, ledger, disk, queue, lastLog,
                   submits, faults, handled, epoch>>

\* _process_file lines 81-90: extract_text never raises; blank text is
\* logged as KEPT (no text) and goes straight to _mark_processed.
Extract(w) ==
    /\ UNCHANGED auxVars
    /\ wk[w].pc = "extract"
    /\ \E text \in Extracted(src, wk[w].file) :
        wk' = [wk EXCEPT ![w] =
                 IF IsBlank(text)
                 THEN [@ EXCEPT !.pc = "mark", !.text = text,
                                !.res = "KEPT (no text)"]
                 ELSE [@ EXCEPT !.pc = "decide", !.text = text]]
    /\ UNCHANGED <<fstate, recent, wt, notes>>
    /\ UNCHANGED <<now, src, dst, nextId, ledger, disk, queue, lastLog,
                   submits, faults, handled, epoch>>

WorkerLost == [Idle EXCEPT !.pc = "dead"]

\* _process_file lines 111-114: the exception is caught inside the job,
\* so the worker thread returns to the queue
WorkerAfterError == Idle

\* _process_file lines 111-114: the job ends with an ERROR record
Fail(w) ==
    /\ lastLog' = [file |-> wk[w].file, action |-> "ERROR"]
    /\ ledger' = LedgerOnError(ledger, src, wk[w].file, now)
    /\ wk' = [wk EXCEPT ![w] = WorkerAfterError]

\* the failures the environment may still inject
MayFail == {FALSE} \cup {faults < MaxFaults}

Injected(b) == faults' = IF b THEN faults + 1 ELSE faults

\* _process_file lines 92-106: classify, then move or keep.  The
\* classifier may raise; move_file may raise.
Decide(w) ==
    /\ UNCHANGED auxVars
    /\ wk[w].pc = "decide"
    /\ \E raises \in MayFail, r \in classify(wk[w].text), ioerror \in MayFail :
        LET f == wk[w].file
            mv == move_file(src, dst, f, r.cat, now, ioerror)
        IN IF raises
           THEN Fail(w) /\ Injected(TRUE) /\ UNCHANGED <<src, dst>>
           ELSE IF ShouldMove(r.score)
           THEN IF mv.ok
                THEN /\ src' = mv.src
                     /\ dst' = mv.dst
                     /\ wk' = [wk EXCEPT ![w] =
                                 [@ EXCEPT !.pc = "mark", !.cat = r.cat,
                                           !.score = r.score, !.res = "MOVED"]]
                     /\ UNCHANGED <<ledger, lastLog, faults>>
                ELSE Fail(w) /\ Injected(ioerror) /\ UNCHANGED <<src, dst>>
           ELSE /\ wk' = [wk EXCEPT ![w] =
                            [@ EXCEPT !.pc = "mark", !.cat = r.cat,
                                      !.score = r.score, !.res = "KEPT"]]
                /\ UNCHANGED <<src, dst, ledger, lastLog, faults>>
    /\ UNCHANGED <<fstate, recent, wt, notes>>
    /\ UNCHANGED <<now, nextId, disk, queue, submits, handled, epoch>>

\* _process_file lines 89 and 109: _mark_processed, which also saves
Mark(w) ==
    /\ UNCHANGED auxVars
    /\ wk[w].pc = "mark"
    /\ \E oserror \in MayFail :
        LET f == wk[w].file IN
        /\ ledger' = _mark_processed(ledger, src, f, now)
        /\ disk' = _save_processed_files(ledger', disk, oserror)
        /\ Injected(oserror)
        /\ handled' = [handled EXCEPT ![f] =
                         IF wk[w].m # NoTime /\ ~oserror
                         THEN [m |-> wk[w].m, ep |-> epoch] ELSE @]
        /\ lastLog' = [file |-> f, action |-> wk[w].res]
    /\ wk' = [wk EXCEPT ![w] = Idle]
    /\ UNCHANGED <<fstate, recent, wt, notes>>
    /\ UNCHANGED <<now, src, dst, nextId, queue, submits, epoch>>

\* The process is stopped and started again: WorkerPool.__init__ builds a
\* fresh executor and reloads the ledger from processed_files.json.
Restart ==
    /\ UNCHANGED auxVars
    /\ epoch < MaxRestarts
    /\ epoch' = epoch + 1
    /\ queue' = <<>>
    /\ wk' = [w \in Workers |-> Idle]
    /\ ledger' = _load_processed_files(disk).ledger
    /\ recent' = [p \in WatchPaths |-> NoTime]
    /\ wt' = [i \in 1..MaxEvents |-> NoWait]
    /\ notes' = <<>>
    /\ UNCHANGED fstate
    /\ UNCHANGED <<now, src, dst, nextId, disk, lastLog, submits, faults,
                   handled>>

Next ==
    \/ Tick
    \/ \E f \in Files, m \in Time : Drop(f, m)
    \/ \E f \in Files : Modify(f)
    \/ \E f \in Files : Delete(f)
    \/ \E f \in Files : Submit(f)
    \/ \E w \in Workers : Begin(w)
    \/ \E w \in Workers : Extract(w)
    \/ \E w \in Workers : Decide(w)
    \/ \E w \in Workers : Mark(w)
    \/ Restart

Spec == Init /\ [][Next]_vars

\* ------------------------------------------------- the pool, running
\* One run of the process, no restart; the worker threads keep being
\* scheduled (ThreadPoolExecutor threads block only on the work queue).
NextRun ==
    \/ Tick
    \/ \E f \in Files, m \in Time : Drop(f, m)
    \/ \E f \in Files : Modify(f)
    \/ \E f \in Files : Delete(f)
    \/ \E f \in Files : Submit(f)
    \/ \E w \in Workers : Begin(w)
    \/ \E w \in Workers : Extract(w)
    \/ \E w \in Workers : Decide(w)
    \/ \E w \in Workers : Mark(w)

LiveSpec ==
    /\ Init
    /\ [][NextRun]_vars
    /\ WF_vars(\E w \in Workers : Begin(w))
    /\ \A w \in Workers : WF_vars(Extract(w) \/ Decide(w) \/ Mark(w))

\* ---------------------------------------------------- the pool alone
\* WorkerPool with more submissions than worker threads: the files are in
\* the watched directory and submit is called for them again and again.
InitPool ==
    /\ now = 0
    /\ src = [f \in Files |-> [mtime |-> 0, id |-> 1]]
    /\ dst = [p \in DestPaths |-> 0]
    /\ nextId = 2
    /\ disk = Missing
    /\ ledger = _load_processed_files(Missing).ledger
    /\ queue = <<>>
    /\ wk = [w \in Workers |-> Idle]
    /\ lastLog = NoLog
    /\ submits = 0
    /\ faults = 0
    /\ handled = [f \in Files |-> NoHandled]
    /\ epoch = 0
    /\ fstate = [f \in Files |-> "ready"]
    /\ recent = [p \in WatchPaths |-> NoTime]
    /\ wt = [i \in 1..MaxEvents |-> NoWait]
    /\ notes = <<>>
    /\ phase = "running"
    /\ mover = NoMove
    /\ calls = NoCalls
    /\ gone = {}
    /\ scan = NoScan
    /\ upload = NoUploads

\* WorkerPool.submit(filepath), lines 53-60: the ledger test, then
\* executor.submit, which appends to the executor's unbounded queue
PoolSubmit(f) ==
    /\ submits < MaxJobs
    /\ submits' = submits + 1
    /\ queue' = submit(queue, ledger, src, f)
    /\ UNCHANGED <<now, src, dst, nextId, ledger, disk, wk, lastLog, faults,
                   handled, epoch, fstate, recent, wt, notes>>
    /\ UNCHANGED auxVars

NextPool ==
    \/ \E f \in Files : PoolSubmit(f)
    \/ \E w \in Workers : Begin(w)
    \/ \E w \in Workers : Extract(w)
    \/ \E w \in Workers : Decide(w)
    \/ \E w \in Workers : Mark(w)

SpecPool == InitPool /\ [][NextPool]_vars

\* the worker threads keep being scheduled
LivePool ==
    /\ InitPool
    /\ [][NextPool]_vars
    /\ WF_vars(\E w \in Workers : Begin(w))
    /\ \A w \in Workers : WF_vars(Extract(w) \/ Decide(w) \/ Mark(w))

\* ---------------------------------------------------- the mover alone
\* move_file called on any destination tree: files put there earlier, by
\* this program or by anyone else, under plain or timestamped names.
ForeignId == MaxVersions + 1

MoverPaths == {p \in DestPaths : p.cat = "ML"}

InitMover ==
    /\ now \in Time
    /\ src = [f \in Files |-> NoFile]
    /\ \E pre \in SUBSET MoverPaths :
          dst = [p \in DestPaths |-> IF p \in pre THEN ForeignId ELSE 0]
    /\ nextId = 1
    /\ disk = Missing
    /\ ledger = EmptyLedger
    /\ queue = <<>>
    /\ wk = [w \in Workers |-> Idle]
    /\ lastLog = NoLog
    /\ submits = 0
    /\ faults = 0
    /\ handled = [f \in Files |-> NoHandled]
    /\ epoch = 0
    /\ fstate = [f \in Files |-> "ready"]
    /\ recent = [p \in WatchPaths |-> NoTime]
    /\ wt = [i \in 1..MaxEvents |-> NoWait]
    /\ notes = <<>>
    /\ phase = "running"
    /\ mover = NoMove
    /\ calls = NoCalls
    /\ gone = {}
    /\ scan = NoScan
    /\ upload = NoUploads

\* move_file(filepath, category)
MoveCall(f, cat) ==
    /\ UNCHANGED auxVars
    /\ \E ioerror \in MayFail :
        LET mv == move_file(src, dst, f, cat, now, ioerror) IN
        /\ src' = mv.src
        /\ dst' = mv.dst
        /\ Injected(ioerror)
        /\ lastLog' = [file |-> f, action |-> IF mv.ok THEN "moved" ELSE "raised"]
    /\ UNCHANGED <<fstate, recent, wt, notes>>
    /\ UNCHANGED <<now, nextId, ledger, disk, queue, wk, submits, handled, epoch>>

NextMover ==
    \/ Tick
    \/ \E f \in Files, m \in Time : Drop(f, m)
    \/ \E f \in Files, cat \in Categories : MoveCall(f, cat)

SpecMover == InitMover /\ [][NextMover]_vars

\* ------------------------------------- the mover between two volumes
\* With the watched directory and the destination root on different
\* volumes os.rename fails inside shutil.move, which then copies the file
\* to the destination path with copy2 and unlinks the source.

\* the destination path of the move under way
MovingTo == [cat |-> mover.cat, base |-> mover.file, ts |-> mover.ts]

\* the file at destination path p is still being written
Partial(p) == mover.pc = "copying" /\ p = MovingTo

\* move_file lines 36-50, up to the point where copy2 has opened the
\* destination path for writing: the file exists under its final name
MoveStart(f, cat) ==
    /\ mover.pc = "idle"
    /\ Exists(src, f)
    /\ LET target == TargetPath(dst, f, cat, now) IN
        /\ dst' = [dst EXCEPT ![target] = src[f].id]
        /\ mover' = [pc |-> "copying", file |-> f, cat |-> cat,
                      ts |-> target.ts]
    /\ UNCHANGED <<now, src, nextId, ledger, disk, queue, wk, lastLog,
                   submits, faults, handled, epoch, fstate, recent, wt, notes,
                   phase, calls, gone, scan, upload>>

\* copy2 has written the last byte and copied the file's times
CopyDone ==
    /\ mover.pc = "copying"
    /\ mover' = [mover EXCEPT !.pc = "copied"]
    /\ UNCHANGED <<now, src, dst, nextId, ledger, disk, queue, wk, lastLog,
                   submits, faults, handled, epoch, fstate, recent, wt, notes,
                   phase, calls, gone, scan, upload>>

\* shutil.move unlinks the source; move_file returns (line 53)
Unlink ==
    /\ mover.pc = "copied"
    /\ src' = [src EXCEPT ![mover.file] = NoFile]
    /\ mover' = NoMove
    /\ lastLog' = [file |-> mover.file, action |-> "moved"]
    /\ UNCHANGED <<now, dst, nextId, ledger, disk, queue, wk, submits,
                   faults, handled, epoch, fstate, recent, wt, notes, phase,
                   calls, gone, scan, upload>>

NextMoverX ==
    \/ Tick
    \/ \E f \in Files, m \in Time : Drop(f, m)
    \/ \E f \in Files, cat \in Categories : MoveStart(f, cat)
    \/ CopyDone
    \/ Unlink

SpecMoverX == InitMover /\ [][NextMoverX]_vars

\* ------------------------------------------------------- FileWatcher
DebouncedInverted(rec, p, clock) ==
    /\ rec[p] # NoTime
    /\ clock - rec[p] >= _debounce_seconds * TicksPerSecond

\* _on_new_file lines 125-128: the notification is a duplicate
Debounced(rec, p, clock) ==
    /\ rec[p] # NoTime
    /\ clock - rec[p] < _debounce_seconds * TicksPerSecond

\* _on_new_file lines 131-140: the extension filter
Filtered(p) ==
    \/ Ext(p) \in ignored_extensions
    \/ Ext(p) \notin ALL_SUPPORTED_EXTENSIONS

NotifyExtendsWindow(p) ==
    /\ UNCHANGED auxVars
    /\ Len(notes) < MaxEvents
    /\ LET i == Len(notes) + 1 IN
       IF Debounced(recent, p, now)
       THEN /\ notes' = Append(notes, [path |-> p, t |-> now, started |-> FALSE])
            /\ recent' = [recent EXCEPT ![p] = now]
            /\ UNCHANGED wt
       ELSE /\ recent' = [recent EXCEPT ![p] = now]
            /\ IF Filtered(p)
               THEN /\ notes' = Append(notes, [path |-> p, t |-> now,
                                               started |-> FALSE])
                    /\ UNCHANGED wt
               ELSE /\ notes' = Append(notes, [path |-> p, t |-> now,
                                               started |-> TRUE])
                    /\ wt' = [wt EXCEPT ![i] =
                                [file |-> p, pc |-> "sleep", attempt |-> 0]]
    /\ UNCHANGED <<now, src, dst, nextId, ledger, disk, queue, wk, lastLog,
                   submits, faults, handled, epoch, fstate>>

NotifyWaitsForThreads(p) ==
    /\ UNCHANGED auxVars
    /\ Len(notes) < MaxEvents
    /\ \A i \in 1..MaxEvents : wt[i].pc \notin {"sleep", "try"}
    /\ LET i == Len(notes) + 1 IN
       IF Debounced(recent, p, now)
       THEN /\ notes' = Append(notes, [path |-> p, t |-> now, started |-> FALSE])
            /\ UNCHANGED <<recent, wt>>
       ELSE /\ recent' = [recent EXCEPT ![p] = now]
            /\ IF Filtered(p)
               THEN /\ notes' = Append(notes, [path |-> p, t |-> now,
                                               started |-> FALSE])
                    /\ UNCHANGED wt
               ELSE /\ notes' = Append(notes, [path |-> p, t |-> now,
                                               started |-> TRUE])
                    /\ wt' = [wt EXCEPT ![i] =
                                [file |-> p, pc |-> "sleep", attempt |-> 0]]
    /\ UNCHANGED <<now, src, dst, nextId, ledger, disk, queue, wk, lastLog,
                   submits, faults, handled, epoch, fstate>>

\* _NewFileHandler.on_created / on_modified -> FileWatcher._on_new_file,
\* run one notification at a time on the observer's thread
Notify(p) ==
    /\ UNCHANGED auxVars
    /\ Len(notes) < MaxEvents
    /\ LET i == Len(notes) + 1 IN
       IF Debounced(recent, p, now)
       THEN /\ notes' = Append(notes, [path |-> p, t |-> now, started |-> FALSE])
            /\ UNCHANGED <<recent, wt>>
       ELSE /\ recent' = [recent EXCEPT ![p] = now]
            /\ IF Filtered(p)
               THEN /\ notes' = Append(notes, [path |-> p, t |-> now,
                                               started |-> FALSE])
                    /\ UNCHANGED wt
               ELSE /\ notes' = Append(notes, [path |-> p, t |-> now,
                                               started |-> TRUE])
                    /\ wt' = [wt EXCEPT ![i] =
                                [file |-> p, pc |-> "sleep", attempt |-> 0]]
    /\ UNCHANGED <<now, src, dst, nextId, ledger, disk, queue, wk, lastLog,
                   submits, faults, handled, epoch, fstate>>

\* _wait_and_submit line 163: the settle delay is over
Wake(i) ==
    /\ UNCHANGED auxVars
    /\ wt[i].pc = "sleep"
    /\ wt' = [wt EXCEPT ![i].pc = "try"]
    /\ UNCHANGED <<now, src, dst, nextId, ledger, disk, queue, wk, lastLog,
                   submits, faults, handled, epoch, fstate, recent, notes>>

\* _is_file_ready: the file can be opened and read
_is_file_ready(fs, f) == fs[f] # "locked"

AttemptNoExists(i) ==
    /\ UNCHANGED auxVars
    /\ wt[i].pc = "try"
    /\ LET f == wt[i].file IN
       IF _is_file_ready(fstate, f)
       THEN IF fstate[f] \in {"big", "empty"}
            THEN /\ wt' = [wt EXCEPT ![i].pc = "abandoned"]
                 /\ UNCHANGED <<queue, submits>>
            ELSE /\ wt' = [wt EXCEPT ![i].pc = "submitted"]
                 /\ queue' = submit(queue, ledger, src, f)
                 /\ submits' = submits + 1
       ELSE /\ wt' = [wt EXCEPT ![i] =
                        IF wt[i].attempt + 1 < max_retries
                        THEN [@ EXCEPT !.attempt = @ + 1]
                        ELSE [@ EXCEPT !.attempt = @ + 1, !.pc = "abandoned"]]
            /\ UNCHANGED <<queue, submits>>
    /\ UNCHANGED <<now, src, dst, nextId, ledger, disk, wk, lastLog, faults,
                   handled, epoch, fstate, recent, notes>>

AttemptNoLimit(i) ==
    /\ UNCHANGED auxVars
    /\ wt[i].pc = "try"
    /\ LET f == wt[i].file IN
       IF ~Exists(src, f)
       THEN /\ wt' = [wt EXCEPT ![i].pc = "abandoned"]
            /\ UNCHANGED <<queue, submits>>
       ELSE IF _is_file_ready(fstate, f)
       THEN IF fstate[f] \in {"big", "empty"}
            THEN /\ wt' = [wt EXCEPT ![i].pc = "abandoned"]
                 /\ UNCHANGED <<queue, submits>>
            ELSE /\ wt' = [wt EXCEPT ![i].pc = "submitted"]
                 /\ queue' = submit(queue, ledger, src, f)
                 /\ submits' = submits + 1
       ELSE /\ wt' = [wt EXCEPT ![i].attempt =
                        IF @ < max_retries THEN @ + 1 ELSE @]
            /\ UNCHANGED <<queue, submits>>
    /\ UNCHANGED <<now, src, dst, nextId, ledger, disk, wk, lastLog, faults,
                   handled, epoch, fstate, recent, notes>>

AttemptKeepsTrying(i) ==
    /\ UNCHANGED auxVars
    /\ wt[i].pc = "try"
    /\ LET f == wt[i].file IN
       IF ~Exists(src, f)
       THEN /\ wt' = [wt EXCEPT ![i].pc = "abandoned"]
            /\ UNCHANGED <<queue, submits>>
       ELSE IF _is_file_ready(fstate, f)
       THEN IF fstate[f] \in {"big", "empty"}
            THEN /\ wt' = [wt EXCEPT ![i].pc = "abandoned"]
                 /\ UNCHANGED <<queue, submits>>
            ELSE /\ wt' = [wt EXCEPT ![i].pc =
                              IF submits = 0 THEN "try" ELSE "submitted"]
                 /\ queue' = submit(queue, ledger, src, f)
                 /\ submits' = submits + 1
       ELSE /\ wt' = [wt EXCEPT ![i] =
                        IF wt[i].attempt + 1 < max_retries
                        THEN [@ EXCEPT !.attempt = @ + 1]
                        ELSE [@ EXCEPT !.attempt = @ + 1, !.pc = "abandoned"]]
            /\ UNCHANGED <<queue, submits>>
    /\ UNCHANGED <<now, src, dst, nextId, ledger, disk, wk, lastLog, faults,
                   handled, epoch, fstate, recent, notes>>

\* _wait_and_submit lines 169-197: one pass of the retry loop
Attempt(i) ==
    /\ UNCHANGED auxVars
    /\ wt[i].pc = "try"
    /\ LET f == wt[i].file IN
       IF ~Exists(src, f)
       THEN /\ wt' = [wt EXCEPT ![i].pc = "abandoned"]
            /\ UNCHANGED <<queue, submits>>
       ELSE IF _is_file_ready(fstate, f)
       THEN IF fstate[f] \in {"big", "empty"}
            THEN /\ wt' = [wt EXCEPT ![i].pc = "abandoned"]
                 /\ UNCHANGED <<queue, submits>>
            ELSE /\ wt' = [wt EXCEPT ![i].pc = "submitted"]
                 /\ queue' = submit(queue, ledger, src, f)
                 /\ submits' = submits + 1
       ELSE /\ wt' = [wt EXCEPT ![i] =
                        IF wt[i].attempt + 1 < max_retries
                        THEN [@ EXCEPT !.attempt = @ + 1]
                        ELSE [@ EXCEPT !.attempt = @ + 1, !.pc = "abandoned"]]
            /\ UNCHANGED <<queue, submits>>
    /\ UNCHANGED <<now, src, dst, nextId, ledger, disk, wk, lastLog, faults,
                   handled, epoch, fstate, recent, notes>>

\* ----------------------------------------- the watcher's environment
MaxWatchClock == _debounce_seconds * TicksPerSecond + WatchSlack

\* The watcher reads the clock only in _on_new_file, so time is followed
\* for as long as a notification can still arrive.
TickW ==
    /\ UNCHANGED auxVars
    /\ now < MaxWatchClock
    /\ Len(notes) < MaxEvents
    /\ now' = now + 1
    /\ UNCHANGED <<src, dst, nextId, ledger, disk, queue, wk, lastLog, submits,
                   faults, handled, epoch, fstate, recent, wt, notes>>

\* The files whose arrival the watcher is followed through
WatchedFiles == {"a.pdf"}

\* A download starts or a file is copied in: it may still be held by its
\* writer, be empty so far, or be too big.  The watcher never reads the
\* mtime; the file comes with the one it was given at time 0.
Arrive(f, st) ==
    /\ UNCHANGED auxVars
    /\ ~Exists(src, f)
    /\ nextId <= MaxVersions
    /\ src' = [src EXCEPT ![f] = [mtime |-> 0, id |-> nextId]]
    /\ nextId' = nextId + 1
    /\ fstate' = [fstate EXCEPT ![f] = st]
    /\ UNCHANGED <<now, dst, ledger, disk, queue, wk, lastLog, submits, faults,
                   handled, epoch, recent, wt, notes>>

\* The writer goes on: content arrives, the handle is released.
Settle(f, st) ==
    /\ UNCHANGED auxVars
    /\ Exists(src, f)
    /\ fstate[f] # st
    /\ fstate' = [fstate EXCEPT ![f] = st]
    /\ UNCHANGED <<now, src, dst, nextId, ledger, disk, queue, wk, lastLog, submits,
                   faults, handled, epoch, recent, wt, notes>>

\* Another process deletes the file; the wait threads that are waiting for
\* it are noted.
Vanish(f) ==
    /\ Exists(src, f)
    /\ src' = [src EXCEPT ![f] = NoFile]
    /\ fstate' = [fstate EXCEPT ![f] = "ready"]
    /\ gone' = gone \cup {i \in 1..MaxEvents :
                              wt[i].file = f /\ wt[i].pc \in {"sleep", "try"}}
    /\ UNCHANGED <<now, dst, nextId, ledger, disk, queue, wk, lastLog, submits,
                   faults, handled, epoch, recent, wt, notes, phase, mover,
                   calls, scan, upload>>

NextWatch ==
    \/ TickW
    \/ \E f \in WatchedFiles, st \in FStates : Arrive(f, st)
    \/ \E f \in WatchedFiles, st \in FStates : Settle(f, st)
    \/ \E f \in WatchedFiles : Delete(f)
    \/ \E p \in WatchPaths : Notify(p)
    \/ \E i \in 1..MaxEvents : Wake(i)
    \/ \E i \in 1..MaxEvents : Attempt(i)

SpecWatch == Init /\ [][NextWatch]_vars

\* a slow file: files that can be opened or are held by their writer
\* come and change; the first wait thread may never be scheduled again,
\* the others keep being scheduled
NextStall ==
    \/ \E f \in Files, st \in {"ready", "locked"} : Arrive(f, st)
    \/ \E f \in Files, st \in {"ready", "locked"} : Settle(f, st)
    \/ \E p \in Files : Notify(p)
    \/ \E i \in 1..MaxEvents : Wake(i)
    \/ \E i \in 1..MaxEvents : Attempt(i)

LiveStall ==
    /\ Init
    /\ [][NextStall]_vars
    /\ \A i \in 2..MaxEvents : WF_vars(Wake(i) \/ Attempt(i))

\* A file that is created empty and filled afterwards, as browsers do:
\* the created notification, then the write, then the modified
\* notification of that write; the clock runs meanwhile.
NextFill ==
    \/ TickW
    \/ \E f \in WatchedFiles : Arrive(f, "empty")
    \/ \E f \in WatchedFiles : Exists(src, f) /\ Len(notes) = 0 /\ Notify(f)
    \/ \E f \in WatchedFiles :
          Len(notes) = 1 /\ fstate[f] = "empty" /\ Settle(f, "ready")
    \/ \E f \in WatchedFiles :
          Len(notes) = 1 /\ fstate[f] = "ready" /\ Notify(f)
    \/ \E i \in 1..MaxEvents : Wake(i)
    \/ \E i \in 1..MaxEvents : Attempt(i)

\* the wait threads keep being scheduled
LiveFill ==
    /\ Init
    /\ [][NextFill]_vars
    /\ \A i \in 1..MaxEvents : WF_vars(Wake(i) \/ Attempt(i))

\* the debounce over time: files that can be opened come, grow and go,
\* notifications arrive at any moment
NextDebounce ==
    \/ TickW
    \/ \E f \in WatchedFiles, st \in {"ready", "empty"} : Arrive(f, st)
    \/ \E f \in WatchedFiles, st \in {"ready", "empty"} : Settle(f, st)
    \/ \E f \in WatchedFiles : Delete(f)
    \/ \E p \in WatchPaths : Notify(p)
    \/ \E i \in 1..MaxEvents : Wake(i)
    \/ \E i \in 1..MaxEvents : Attempt(i)

SpecDebounce == Init /\ [][NextDebounce]_vars

\* the classification server on its own
NextServer ==
    \/ \E r \in Requests, img \in ImageTexts \cup {NoImage} : Receive(r, img)
    \/ \E r \in Requests : Save(r)
    \/ \E r \in Requests : Ocr(r)
    \/ \E r \in Requests : Respond(r)
    \/ \E r \in Requests : Close(r)

SpecServer == Init /\ [][NextServer]_vars

\* ----------------------------------------------- the startup scan
\* FileWatcher.start runs _scan_existing, if configured, before it starts
\* the observer.

\* the names os.listdir returns: the files present, and the two names
\* with other extensions
Listed(p) == p \notin Files \/ Exists(src, p)

ScanAcceptsAnySize(p) == ~Filtered(p) /\ Exists(src, p)

\* _scan_existing lines 82-99: a regular file, its extension not ignored
\* and supported, its size readable, not zero and not over the limit
ScanAccepts(p) ==
    /\ ~Filtered(p)
    /\ Exists(src, p)
    /\ fstate[p] \notin {"big", "empty"}

\* _scan_existing line 81: os.listdir
ScanStart ==
    /\ scan.pc = "off"
    /\ scan' = [pc |-> "listing", todo |-> {p \in WatchPaths : Listed(p)},
                 sent |-> {}]
    /\ UNCHANGED <<now, src, dst, nextId, ledger, disk, queue, wk, lastLog,
                   submits, faults, handled, epoch, fstate, recent, wt, notes,
                   phase, mover, calls, gone, upload>>

\* _scan_existing lines 82-102: one name of the listing
ScanFile(p) ==
    /\ scan.pc = "listing"
    /\ p \in scan.todo
    /\ IF ScanAccepts(p)
       THEN /\ queue' = submit(queue, ledger, src, p)
            /\ submits' = submits + 1
            /\ scan' = [scan EXCEPT !.todo = @ \ {p}, !.sent = @ \cup {p}]
       ELSE /\ scan' = [scan EXCEPT !.todo = @ \ {p}]
            /\ UNCHANGED <<queue, submits>>
    /\ UNCHANGED <<now, src, dst, nextId, ledger, disk, wk, lastLog, faults,
                   handled, epoch, fstate, recent, wt, notes, phase, mover,
                   calls, gone, upload>>

\* the listing is used up; start goes on to observer.start()
ScanEnd ==
    /\ scan.pc = "listing"
    /\ scan.todo = {}
    /\ scan' = [scan EXCEPT !.pc = "done"]
    /\ UNCHANGED <<now, src, dst, nextId, ledger, disk, queue, wk, lastLog,
                   submits, faults, handled, epoch, fstate, recent, wt, notes,
                   phase, mover, calls, gone, upload>>

\* the states of a file that differ in its size only
SizeStates == {"ready", "empty", "big"}

\* the watcher from start(): the scan, then the observer and its wait
\* threads, while files that can be opened come, grow and go
NextScan ==
    \/ \E f \in Files, st \in SizeStates : Arrive(f, st)
    \/ \E f \in Files, st \in SizeStates : Settle(f, st)
    \/ \E f \in Files : Delete(f)
    \/ ScanStart
    \/ \E p \in WatchPaths : ScanFile(p)
    \/ ScanEnd
    \/ \E p \in WatchPaths : scan.pc = "done" /\ Notify(p)
    \/ \E i \in 1..MaxEvents : Wake(i)
    \/ \E i \in 1..MaxEvents : Attempt(i)

SpecScan == Init /\ [][NextScan]_vars

\* the readiness wait with files that come, change state, go and come
\* again under the same name
NextWait ==
    \/ \E f \in WatchedFiles, st \in FStates : Arrive(f, st)
    \/ \E f \in WatchedFiles, st \in FStates : Settle(f, st)
    \/ \E f \in WatchedFiles : Vanish(f)
    \/ \E p \in WatchPaths : Notify(p)
    \/ \E i \in 1..MaxEvents : Wake(i)
    \/ \E i \in 1..MaxEvents : Attempt(i)

SpecWait == Init /\ [][NextWait]_vars

\* Each _wait_and_submit thread keeps being scheduled: its sleeps end and
\* its file checks return.
LiveWait ==
    /\ Init
    /\ [][NextWait]_vars
    /\ \A i \in 1..MaxEvents : WF_vars(Wake(i) \/ Attempt(i))

\* ----------------------------------- the service, thread by thread
\* _mark_processed and _save_processed_files as the worker threads run
\* them: nothing guards processed_files or processed_files.json, so the
\* steps of one thread interleave with those of the others.

\* the basenames a ledger has entries for
Keys(led) == {f \in Files : led[f] # NoTime}

\* A writer that opened the file before the last truncation flushes the
\* text c at offset 0: over a longer complete dump the tail of that dump
\* stays behind it.
Overlay(c, dsk) ==
    IF dsk.kind = "map" /\ Cardinality(Keys(c)) < Cardinality(Keys(dsk.map))
    THEN Broken("garbled")
    ELSE IF dsk.kind = "garbled" THEN dsk
    ELSE Whole(c)

\* The beginning of a dump of snap flushed at offset 0: it is the
\* beginning of any complete dump that agrees with snap on snap's keys.
OverlayPrefix(snap, dsk) ==
    IF dsk.kind = "map"
    THEN IF \A f \in Keys(snap) : dsk.map[f] = snap[f]
         THEN dsk ELSE Broken("garbled")
    ELSE dsk

\* _mark_processed lines 144-150: the entry is written to the map
MarkSet(w) ==
    /\ wk[w].pc = "mark"
    /\ ledger' = _mark_processed(ledger, src, wk[w].file, now)
    /\ wk' = [wk EXCEPT ![w].pc = "save"]
    /\ UNCHANGED <<now, src, dst, nextId, disk, queue, lastLog, submits,
                   faults, handled, epoch, fstate, recent, wt, notes>>
    /\ UNCHANGED auxVars

\* the job is over: its outcome was logged on line 88, 101 or 105
JobDone(w) ==
    /\ lastLog' = [file |-> wk[w].file, action |-> wk[w].res]
    /\ wk' = [wk EXCEPT ![w] = Idle]

\* _save_processed_files line 171: open(..., 'w') truncates the file, and
\* json.dump starts its pass over the map.  An OSError is logged and the
\* job ends as if the save had been done.
SaveOpen(w) ==
    /\ wk[w].pc = "save"
    /\ \E oserror \in MayFail :
        /\ Injected(oserror)
        /\ IF oserror
           THEN JobDone(w) /\ UNCHANGED <<disk, handled>>
           ELSE /\ disk' = Broken("partial")
                /\ wk' = [wk EXCEPT ![w].pc = "dump", ![w].snap = ledger]
                /\ UNCHANGED <<lastLog, handled>>
    /\ UNCHANGED <<now, src, dst, nextId, ledger, queue, submits, epoch,
                   fstate, recent, wt, notes>>
    /\ UNCHANGED auxVars

\* _save_processed_files line 172 to the end of the with block.  If no key
\* was added since the pass began the dump is complete and is flushed when
\* the file is closed.  If a key was added, either the pass was still
\* running and raises RuntimeError (dictionary changed size during
\* iteration), which only the except branch of _process_file catches, or
\* it had ended and the dump without that key is flushed.
SaveClose(w) ==
    /\ wk[w].pc = "dump"
    /\ LET f == wk[w].file
           snap == wk[w].snap
       IN \/ /\ Keys(ledger) = Keys(snap)
             /\ \E c \in {snap, ledger} : disk' = Overlay(c, disk)
             /\ JobDone(w)
             /\ handled' = [handled EXCEPT ![f] =
                              IF wk[w].m # NoTime
                              THEN [m |-> wk[w].m, ep |-> epoch] ELSE @]
             /\ UNCHANGED ledger
          \/ /\ Keys(ledger) # Keys(snap)
             /\ disk' = Overlay(snap, disk)
             /\ JobDone(w)
             /\ UNCHANGED <<ledger, handled>>
          \/ /\ Keys(ledger) # Keys(snap)
             /\ disk' = OverlayPrefix(snap, disk)
             /\ Fail(w)
             /\ UNCHANGED handled
    /\ UNCHANGED <<now, src, dst, nextId, queue, submits, faults, epoch,
                   fstate, recent, wt, notes>>
    /\ UNCHANGED auxVars

\* the file has never been in the watched directory
NeverSeen(f) ==
    /\ ~Exists(src, f)
    /\ \A p \in DestPaths : p.base = f => dst[p] = 0

\* a file is copied into the watched directory, complete
CopyIn(f) == NeverSeen(f) /\ Arrive(f, "ready")

\* the observer reports the new file
Created(f) ==
    /\ Exists(src, f)
    /\ \A i \in 1..Len(notes) : notes[i].path # f
    /\ Notify(f)

\* the service with no failure left for the environment to inject
InitService ==
    /\ now = 0
    /\ src = [f \in Files |-> NoFile]
    /\ dst = [p \in DestPaths |-> 0]
    /\ nextId = 1
    /\ disk = Missing
    /\ ledger = _load_processed_files(Missing).ledger
    /\ queue = <<>>
    /\ wk = [w \in Workers |-> Idle]
    /\ lastLog = NoLog
    /\ submits = 0
    /\ faults = MaxFaults
    /\ handled = [f \in Files |-> NoHandled]
    /\ epoch = 0
    /\ fstate = [f \in Files |-> "ready"]
    /\ recent = [p \in WatchPaths |-> NoTime]
    /\ wt = [i \in 1..MaxEvents |-> NoWait]
    /\ notes = <<>>
    /\ phase = "running"
    /\ mover = NoMove
    /\ calls = NoCalls
    /\ gone = {}
    /\ scan = NoScan
    /\ upload = NoUploads

NextService ==
    \/ \E f \in Files : CopyIn(f)
    \/ \E f \in Files : Created(f)
    \/ \E i \in 1..MaxEvents : Wake(i)
    \/ \E i \in 1..MaxEvents : Attempt(i)
    \/ \E w \in Workers : Begin(w)
    \/ \E w \in Workers : Extract(w)
    \/ \E w \in Workers : Decide(w)
    \/ \E w \in Workers : MarkSet(w)
    \/ \E w \in Workers : SaveOpen(w)
    \/ \E w \in Workers : SaveClose(w)

SpecService == InitService /\ [][NextService]_vars

\* The observer delivers what it has seen, the wait threads and the worker
\* threads keep being scheduled.
LiveService ==
    /\ InitService
    /\ [][NextService]_vars
    /\ \A f \in Files : WF_vars(Created(f))
    /\ \A i \in 1..MaxEvents : WF_vars(Wake(i) \/ Attempt(i))
    /\ WF_vars(\E w \in Workers : Begin(w))
    /\ \A w \in Workers :
          WF_vars(Extract(w) \/ Decide(w) \/ MarkSet(w) \/ SaveOpen(w)
                    \/ SaveClose(w))

\* ------------------------------------------------------- shutdown
\* main.shutdown_handler, run on SIGINT or SIGTERM while watcher.start is
\* blocked in its join loop: watcher.stop(), worker.shutdown(), sys.exit(0).
\* phase follows the handler: "running", "stopping" (the observer is
\* stopped and joined), "draining" (the executor takes no more work and
\* its threads are being joined), "returned" (WorkerPool.shutdown is
\* back), "exited".

\* an executor that would not wait for its threads
ShutdownNoWait == TRUE

\* executor.shutdown(wait=True) returns when the queue is empty and every
\* worker thread has ended
ShutdownWaits == queue = <<>> /\ \A w \in Workers : wk[w].pc = "idle"

\* what the log holds after _save_processed_files caught an OSError
SaveFailed == [file |-> "", action |-> "SAVE FAILED"]

\* the handler starts: watcher.stop() stops and joins the observer
StopWatcher ==
    /\ phase = "running"
    /\ phase' = "stopping"
    /\ UNCHANGED <<mover, calls, gone, scan, upload>>
    /\ UNCHANGED <<now, src, dst, nextId, ledger, disk, queue, wk, lastLog,
                   submits, faults, handled, epoch, fstate, recent, wt,
                   notes>>

\* WorkerPool.shutdown line 182: the executor stops taking work
ExecutorShutdown ==
    /\ phase = "stopping"
    /\ phase' = "draining"
    /\ UNCHANGED <<mover, calls, gone, scan, upload>>
    /\ UNCHANGED <<now, src, dst, nextId, ledger, disk, queue, wk, lastLog,
                   submits, faults, handled, epoch, fstate, recent, wt,
                   notes>>

\* WorkerPool.shutdown lines 182-184: the threads are joined, then the
\* ledger is saved once more; an OSError is logged (lines 173-174)
FinalFlush ==
    /\ phase = "draining"
    /\ ShutdownWaits
    /\ \E oserror \in MayFail :
        /\ Injected(oserror)
        /\ disk' = _save_processed_files(ledger, disk, oserror)
        /\ lastLog' = IF oserror THEN SaveFailed ELSE lastLog
    /\ phase' = "returned"
    /\ UNCHANGED <<mover, calls, gone, scan, upload>>
    /\ UNCHANGED <<now, src, dst, nextId, ledger, queue, wk, submits,
                   handled, epoch, fstate, recent, wt, notes>>

\* main.py line 95: sys.exit(0)
Exit ==
    /\ phase = "returned"
    /\ phase' = "exited"
    /\ UNCHANGED <<mover, calls, gone, scan, upload>>
    /\ UNCHANGED <<now, src, dst, nextId, ledger, disk, queue, wk, lastLog,
                   submits, faults, handled, epoch, fstate, recent, wt,
                   notes>>

AttemptLateAccepted(i) ==
    /\ phase \in {"draining", "returned"}
    /\ Attempt(i)

\* A wait thread (a daemon, stopped by nobody) calls submit after the
\* executor was shut down: a file the ledger does not cover reaches
\* executor.submit, which raises RuntimeError in the wait thread.
AttemptLate(i) ==
    /\ phase \in {"draining", "returned"}
    /\ wt[i].pc = "try"
    /\ LET f == wt[i].file IN
       IF /\ Exists(src, f)
          /\ _is_file_ready(fstate, f)
          /\ fstate[f] \notin {"big", "empty"}
          /\ ~_is_already_processed(ledger, src, f)
       THEN /\ wt' = [wt EXCEPT ![i].pc = "raised"]
            /\ submits' = submits + 1
            /\ UNCHANGED <<now, src, dst, nextId, ledger, disk, queue, wk,
                           lastLog, faults, handled, epoch, fstate, recent,
                           notes>>
            /\ UNCHANGED auxVars
       ELSE Attempt(i)

NextStop ==
    \/ \E f \in Files : phase # "exited" /\ CopyIn(f)
    \/ \E f \in Files : phase = "running" /\ Created(f)
    \/ \E i \in 1..MaxEvents : phase # "exited" /\ Wake(i)
    \/ \E i \in 1..MaxEvents : phase \in {"running", "stopping"} /\ Attempt(i)
    \/ \E i \in 1..MaxEvents : AttemptLate(i)
    \/ \E w \in Workers : Begin(w)
    \/ \E w \in Workers : Extract(w)
    \/ \E w \in Workers : Decide(w)
    \/ \E w \in Workers : MarkSet(w)
    \/ \E w \in Workers : SaveOpen(w)
    \/ \E w \in Workers : SaveClose(w)
    \/ StopWatcher
    \/ ExecutorShutdown
    \/ FinalFlush
    \/ Exit

\* the service with its environment's failures, stopped by a signal
SpecStop == Init /\ [][NextStop]_vars

\* ------------------------------------------- functions on their own
\* extract_text called on a path with extension ext whose extractor
\* behaves as inner
CallExtract(ext, inner) ==
    /\ calls' = [calls EXCEPT !.extract =
                    [done |-> TRUE, ext |-> ext, inner |-> inner,
                     out |-> extract_text(ext, inner)]]
    /\ UNCHANGED <<now, src, dst, nextId, ledger, disk, queue, wk, lastLog,
                   submits, faults, handled, epoch, fstate, recent, wt, notes,
                   phase, mover, gone, scan, upload>>

\* classify(text) called on either classifier after precompute_categories
\* has left it with the list names
CallClassify(engine, names, text) ==
    /\ \E r \in IF engine = "engine"
                THEN ClassificationEngine_classify(names, text)
                ELSE MockClassifier_classify(names, text) :
          calls' = [calls EXCEPT !.classify =
                      [done |-> TRUE, engine |-> engine, names |-> names,
                       text |-> text, out |-> r]]
    /\ UNCHANGED <<now, src, dst, nextId, ledger, disk, queue, wk, lastLog,
                   submits, faults, handled, epoch, fstate, recent, wt, notes,
                   phase, mover, gone, scan, upload>>

\* the backing stores a WorkerPool can be constructed on
Stores == {Broken(k) : k \in StoreKinds \ {"map"}}
              \cup {Whole(led) : led \in [Files -> {NoTime, 0}]}

\* WorkerPool.__init__ on the backing store st: line 40 calls
\* _load_processed_files, and what that raises leaves the constructor
CallLoad(st) ==
    /\ calls' = [calls EXCEPT !.load =
                    [done |-> TRUE, store |-> st,
                     out |-> _load_processed_files(st)]]
    /\ UNCHANGED <<now, src, dst, nextId, ledger, disk, queue, wk, lastLog,
                   submits, faults, handled, epoch, fstate, recent, wt, notes,
                   phase, mover, gone, scan, upload>>

\* values config.json can give confidence_threshold (worker.py:37 takes
\* whatever is there), in hundredths
Thresholds == {0, 50, 100}

\* _process_file lines 98-106 with self.threshold = th: the outcome logged
\* for the classifier's answer r when move_file succeeds
Outcome(th, r) == IF r.score >= th THEN "MOVED" ELSE "KEPT"

\* the decision of _process_file on its own, for a pool configured with
\* threshold th and a classifier answer r
CallDecide(th, r) ==
    /\ calls' = [calls EXCEPT !.decide =
                    [done |-> TRUE, th |-> th, r |-> r,
                     out |-> Outcome(th, r)]]
    /\ UNCHANGED <<now, src, dst, nextId, ledger, disk, queue, wk, lastLog,
                   submits, faults, handled, epoch, fstate, recent, wt, notes,
                   phase, mover, gone, scan, upload>>

NextCalls ==
    \/ \E ext \in Extensions, inner \in ExtractorOutcomes :
          CallExtract(ext, inner)
    \/ \E engine \in {"engine", "mock"}, names \in CategoryLists,
          text \in Texts : CallClassify(engine, names, text)
    \/ \E st \in Stores : CallLoad(st)

SpecCalls == Init /\ [][NextCalls]_vars

\* _process_file lines 85-106 for every configuration: either classifier
\* answers, and the pool decides with its threshold on the answer to a
\* text that is not blank (a blank one ends the job on line 90)
NextDecide ==
    \/ \E engine \in {"engine", "mock"}, names \in CategoryLists,
          text \in Texts : CallClassify(engine, names, text)
    \/ \E th \in Thresholds :
          /\ calls.classify.done
          /\ ~IsBlank(calls.classify.text)
          /\ CallDecide(th, calls.classify.out)

SpecDecide == Init /\ [][NextDecide]_vars

\* ============================================================ claims
\* a step in which worker w ends its job through _mark_processed
MarkStep(w) == wk[w].pc = "mark" /\ wk'[w].pc = "idle" /\ epoch' = epoch

\* a step in which worker w ends its job in the except branch
FailStep(w) ==
    /\ wk[w].pc \in {"extract", "decide", "mark"}
    /\ wk'[w] # wk[w]
    /\ wk'[w].file = ""
    /\ epoch' = epoch
    /\ lastLog' = [file |-> wk[w].file, action |-> "ERROR"]

\* the version of f in the watched directory is the one a completed,
\* journaled job handled
Unchanged(f) == Exists(src, f) /\ src[f].mtime = handled[f].m

\* C1 (as claimed): once a job for f has completed (MOVED, KEPT or KEPT (no
\* text)) in this run and f's mtime is what it was, submit(f) creates no
\* second job.
C1_Idempotent ==
    \A f \in Files :
        (Unchanged(f) /\ handled[f].ep = epoch)
            => submit(queue, ledger, src, f) = queue

\* C2 (as claimed): after a restart, a file whose job completed and was
\* journaled in an earlier run and which is unchanged is not queued again
\* by submit(f).
C2_RestartSafe ==
    \A f \in Files :
        (Unchanged(f) /\ handled[f].ep < epoch)
            => submit(queue, ledger, src, f) = queue

\* C3 (as claimed): f has a ledger entry and its mtime now differs from the
\* recorded one, by however little: submit(f) queues a new job.
C3_AnyNewMtime ==
    \A f \in Files :
        (ledger[f] # NoTime /\ Exists(src, f) /\ src[f].mtime # ledger[f])
            => submit(queue, ledger, src, f) # queue

\* C3 (amended): f has a ledger entry and its mtime differs from the
\* recorded one by at least 1.0 second: submit(f) appends a job for f.
C3_Reprocess ==
    \A f \in Files :
        (/\ ledger[f] # NoTime
         /\ Exists(src, f)
         /\ Abs(src[f].mtime - ledger[f]) >= ToleranceSeconds * TicksPerSecond)
            => /\ Len(submit(queue, ledger, src, f)) = Len(queue) + 1
               /\ submit(queue, ledger, src, f)[Len(queue) + 1].file = f

\* C3 witness: a job queued for a file that is in the ledger with a
\* timestamp a second or more away from the file's mtime
C3_Witness ==
    \E i \in 1..Len(queue) :
        LET f == queue[i].file IN
        /\ ledger[f] # NoTime
        /\ Exists(src, f)
        /\ queue[i].m = src[f].mtime
        /\ Abs(src[f].mtime - ledger[f]) >= ToleranceSeconds * TicksPerSecond

\* C5: a job with real text is moved into the classifier's category when
\* score >= threshold (outcome MOVED, also at score = threshold) and is
\* left where it is when score < threshold (outcome KEPT); a job that
\* fails moves nothing.
C5_DecisionRule ==
    [][\A w \in Workers :
        /\ (wk[w].pc = "decide" /\ wk'[w].pc = "mark") =>
              LET f == wk[w].file
                  j == wk'[w]
              IN /\ j.score >= threshold =>
                       /\ j.res = "MOVED"
                       /\ ~Exists(src', f)
                       /\ \E p \in DestPaths :
                            /\ p.cat = j.cat
                            /\ p.base = f
                            /\ dst'[p] = src[f].id
                            /\ \A q \in DestPaths \ {p} : dst'[q] = dst[q]
                 /\ j.score < threshold =>
                       /\ j.res = "KEPT"
                       /\ src' = src
                       /\ dst' = dst
        /\ (wk[w].pc = "decide" /\ FailStep(w)) => src' = src /\ dst' = dst
      ]_vars

\* C5 witness: a job moved with a score exactly at the threshold
C5_Witness ==
    \E w \in Workers :
        /\ wk[w].pc = "mark"
        /\ wk[w].res = "MOVED"
        /\ wk[w].score = threshold
        /\ ~Exists(src, wk[w].file)

\* a job past extraction whose text is empty or blank is on its way to
\* _mark_processed with KEPT (no text) and no classifier result
BlankSkipsClassifier(w) ==
    (wk[w].pc \in {"decide", "mark"} /\ wk[w].text \in {"", " "})
        => /\ wk[w].pc = "mark"
           /\ wk[w].res = "KEPT (no text)"
           /\ wk[w].cat = ""

\* C7: a job whose text is empty or blank never reaches the classifier
\* or the mover: it is logged KEPT (no text), the file is left in place
\* and _mark_processed puts it in the ledger.
C7_EmptyContent ==
    [][\A w \in Workers :
        /\ BlankSkipsClassifier(w)'
        /\ (wk[w].pc = "extract" /\ wk'[w].pc = "mark") =>
              src' = src /\ dst' = dst /\ ledger' = ledger
        /\ (MarkStep(w) /\ wk[w].res = "KEPT (no text)") =>
              /\ ledger'[wk[w].file] # NoTime
              /\ lastLog' = [file |-> wk[w].file, action |-> "KEPT (no text)"]
              /\ src' = src
              /\ dst' = dst
      ]_vars

\* C7 witness: a blank-only file has been kept and is in the ledger
C7_Witness ==
    /\ lastLog.action = "KEPT (no text)"
    /\ Exists(src, lastLog.file)
    /\ ledger[lastLog.file] = src[lastLog.file].mtime

\* C9: a job that ends with ERROR through a failure in extraction,
\* classification or the move leaves the ledger and its journal as they
\* were, so if the file was not in the ledger, submit still queues it.
C9_NoPoison ==
    [][\A w \in Workers :
        (FailStep(w) /\ wk[w].pc \in {"extract", "decide"}) =>
            /\ ledger' = ledger
            /\ disk' = disk
            /\ ledger[wk[w].file] = NoTime =>
                  submit(queue', ledger', src', wk[w].file) # queue'
      ]_vars

\* C9 witness: a job has ended with ERROR and its file is not in the ledger
C9_Witness ==
    /\ lastLog.action = "ERROR"
    /\ ledger[lastLog.file] = NoTime
    /\ Exists(src, lastLog.file)

\* C10 (as claimed): when a MOVED job ends, the ledger maps the basename
\* to the mtime the file had when it was submitted.
C10_LedgerHoldsMtime ==
    [][\A w \in Workers :
        (MarkStep(w) /\ wk[w].res = "MOVED" /\ wk[w].m # NoTime)
            => ledger'[wk[w].file] = wk[w].m
      ]_vars

\* C6 (as claimed): move_file never overwrites or alters a file that is
\* already in the destination tree; the moved file gets a name of its own.
C6_NoOverwrite ==
    [][\A p \in DestPaths : dst[p] # 0 => dst'[p] = dst[p]]_vars

PoolDrained == queue = <<>> /\ \A w \in Workers : wk[w].pc = "idle"

\* C8: a job that raises ends inside _process_file: its worker goes back
\* to the queue, the queue is left as it was, and the pool keeps draining,
\* so every job queued before or after the failure runs to its end.
C8_Resilient ==
    /\ [][\A w \in Workers :
            FailStep(w) => wk'[w] = Idle /\ queue' = queue]_vars
    /\ []<>PoolDrained

\* C8 witness: a job has failed and the job of another file is past its
\* decision, about to be marked
C8_Witness ==
    /\ lastLog.action = "ERROR"
    /\ \E w \in Workers : wk[w].pc = "mark" /\ wk[w].file # lastLog.file

\* two notifications for one path, the later one inside the debounce
\* window of the earlier one
SameBurst(i, j) ==
    /\ i < j
    /\ notes[i].path = notes[j].path
    /\ notes[j].t - notes[i].t < _debounce_seconds * TicksPerSecond

JobsFor(p) == Len(SelectSeq(queue, LAMBDA job : job.file = p))

SubmittedFor(p) ==
    Cardinality({i \in 1..MaxEvents : wt[i].file = p /\ wt[i].pc = "submitted"})

C17_IsProcessed ==
    \A f \in Files :
        /\ _is_already_processed(ledger, src, f)
              <=> (/\ ledger[f] # NoTime
                   /\ Exists(src, f)
                   /\ Abs(src[f].mtime - ledger[f])
                         < ToleranceSeconds * TicksPerSecond)
        /\ ~Exists(src, f) => ~_is_already_processed(ledger, src, f)

\* C17 witness: a file is in the ledger with an mtime half a second away
\* from the recorded timestamp, and the answer is true
C17_Witness ==
    \E g \in Files :
        /\ ledger[g] # NoTime
        /\ Exists(src, g)
        /\ src[g].mtime # ledger[g]
        /\ _is_already_processed(ledger, src, g)

\* C13 (as claimed): a duplicate job is harmless.  A job whose file nothing
\* outside the pool has touched since it was submitted, and which meets no
\* I/O failure or classifier failure of its own, does not end with ERROR:
\* the only thing that can have taken its file away is the other job for
\* the same file.
C13_RacingBenign ==
    [][\A w \in Workers :
        ~(FailStep(w) /\ wk[w].m # NoTime /\ faults' = faults)]_vars

\* C18 (as claimed): whatever the backing store is when it is not a
\* well-formed ledger (missing, unreadable, malformed in any way),
\* constructing the WorkerPool does not raise and the in-memory ledger is
\* the empty mapping.
C18_BestEffortLoad ==
    (calls.load.done /\ calls.load.store.kind # "map")
        => /\ ~calls.load.out.raises
           /\ calls.load.out.dict
           /\ calls.load.out.ledger = EmptyLedger

\* C19: extract_text never raises, and returns "" when the per-format
\* extractor fails and when the extension has no extractor.
C19_ExtractNeverRaises ==
    calls.extract.done =>
        /\ ~calls.extract.out.raised
        /\ (calls.extract.inner.raises
              \/ calls.extract.ext \notin ALL_SUPPORTED_EXTENSIONS)
             => calls.extract.out.text = ""

\* C19 witness: the extractor of a supported extension raised and
\* extract_text returned ""
C19_Witness ==
    /\ calls.extract.done
    /\ calls.extract.ext = ".pdf"
    /\ calls.extract.inner.raises
    /\ ~calls.extract.out.raised
    /\ calls.extract.out.text = ""

\* C20 (as claimed): both classifiers answer (UNKNOWN, 0.0) when they have
\* no categories or the text is empty or blank.
C20_Sentinel ==
    (calls.classify.done
       /\ (calls.classify.names = <<>> \/ calls.classify.text \in {"", " "}))
        => calls.classify.out = [cat |-> Unknown, score |-> 0]

\* C20 (amended): ClassificationEngine answers (UNKNOWN, 0.0) when it has
\* no categories or the text is empty or blank; MockClassifier answers its
\* first category, or Unknown when it has none, with score 0.75 for every
\* text.
C20_SentinelEngine ==
    calls.classify.done =>
        /\ (calls.classify.engine = "engine"
              /\ (calls.classify.names = <<>>
                    \/ calls.classify.text \in {"", " "}))
             => calls.classify.out = [cat |-> Unknown, score |-> 0]
        /\ calls.classify.engine = "mock"
             => /\ calls.classify.out.score = 75
                /\ calls.classify.out.cat =
                      IF calls.classify.names = <<>> THEN "Unknown"
                      ELSE calls.classify.names[1]

\* C20 witness: the engine, with categories loaded, was given blank text
\* and answered the sentinel
C20_Witness ==
    /\ calls.classify.done
    /\ calls.classify.engine = "engine"
    /\ calls.classify.names # <<>>
    /\ calls.classify.text = " "
    /\ calls.classify.out = [cat |-> Unknown, score |-> 0]

\* C16 (as claimed): a file visible under its final destination name is
\* complete at every moment of a move, also between two volumes.
C16_NoPartialVisible ==
    \A p \in DestPaths : dst[p] # 0 => ~Partial(p)

\* C14 (as claimed): while a worker thread is in a serialization pass
\* over the ledger, no thread updates the ledger, no submitting thread
\* looks a file up in it and no other pass begins.
C14_LedgerExclusive ==
    [][(\E w \in Workers : wk[w].pc = "dump")
         => /\ Keys(ledger') = Keys(ledger)
            /\ submits' = submits
            /\ \A v \in Workers : wk'[v].pc = "dump" => wk[v].pc = "dump"]_vars

\* C15 (as claimed): once the backing file exists it holds a complete
\* snapshot of the ledger at every instant, never an empty, truncated or
\* partly written text.
C15_AtomicPersistence ==
    disk.kind # "missing" => disk.kind = "map"

\* what a reader of processed_files.json finds for f
Recorded(f) == disk.kind = "map" /\ disk.map[f] # NoTime

\* C12 (as claimed): every file copied into the watched directory while
\* the service runs is eventually recorded in processed_files.json.
C12_EndToEnd ==
    \A f \in Files : Exists(src, f) ~> Recorded(f)

C21_UnavailableKept ==
    (calls.decide.done /\ calls.decide.r = Sentinel)
        => calls.decide.out = "KEPT"

\* C22: when a worker takes a job whose file is no longer in the watched
\* directory, the job ends there: the worker stays free (no extraction,
\* classification or move), the directories, the in-memory ledger and
\* processed_files.json are left as they were.
C22_AbsentAborts ==
    [][(/\ queue # <<>>
        /\ queue' = Tail(queue)
        /\ epoch' = epoch
        /\ ~Exists(src, Head(queue).file))
          => /\ wk' = wk
             /\ ledger' = ledger
             /\ disk' = disk
             /\ src' = src
             /\ dst' = dst
             /\ lastLog' = [file |-> Head(queue).file, action |-> "ABSENT"]]_vars

\* C22 witness: a job found its file gone, and the ledger has no entry
\* for it
C22_Witness ==
    /\ lastLog.action = "ABSENT"
    /\ ~Exists(src, lastLog.file)
    /\ ledger[lastLog.file] = NoTime

\* C23: a wait thread makes at most max_retries readiness attempts; after
\* the last failed one it has abandoned its file; once it has submitted or
\* abandoned it does nothing more; and every wait thread that was started
\* ends, submitted or abandoned.
C23_WaitTerminates ==
    /\ [](\A i \in 1..MaxEvents :
            /\ wt[i].attempt <= max_retries
            /\ wt[i].attempt = max_retries => wt[i].pc = "abandoned")
    /\ [][\A i \in 1..MaxEvents :
            wt[i].pc \in {"submitted", "abandoned"} => wt'[i] = wt[i]]_vars
    /\ \A i \in 1..MaxEvents :
            (wt[i].pc \in {"sleep", "try"})
               ~> (wt[i].pc \in {"submitted", "abandoned"})

\* C23 witness: a file that is there but could never be opened was given
\* up after the last attempt, and nothing was submitted
C23_Witness ==
    \E i \in 1..MaxEvents :
        /\ wt[i].pc = "abandoned"
        /\ wt[i].attempt = max_retries
        /\ Exists(src, wt[i].file)
        /\ fstate[wt[i].file] = "locked"
        /\ submits = 0

\* C24 (as claimed): a wait thread whose file was deleted while it was
\* waiting never submits; no job is queued and the ledger has no entry.
C24_DeletedAbandoned ==
    \A i \in gone : wt[i].pc # "submitted"

\* C24 (amended): a wait thread that finds its path absent at one of its
\* checks abandons it there, with no submission, no job and no ledger
\* entry; a thread submits only a path at which a file is present.
C24_AbsentAbandoned ==
    [][\A i \in 1..MaxEvents :
         /\ (wt[i].pc = "try" /\ wt'[i] # wt[i] /\ ~Exists(src, wt[i].file))
              => /\ wt'[i].pc = "abandoned"
                 /\ submits' = submits
                 /\ queue' = queue
                 /\ ledger' = ledger
         /\ (wt[i].pc # "submitted" /\ wt'[i].pc = "submitted")
              => Exists(src, wt[i].file)]_vars

\* C24 witness: a file was deleted during its wait and the thread gave it
\* up without a submission
C24_Witness ==
    \E i \in gone :
        /\ wt[i].pc = "abandoned"
        /\ ~Exists(src, wt[i].file)
        /\ submits = 0
        /\ queue = <<>>
        /\ ledger = EmptyLedger

\* the path qualifies for submission: extension supported and not
\* ignored, the file there, its size neither zero nor over the limit
Qualifies(p) ==
    /\ Ext(p) \in ALL_SUPPORTED_EXTENSIONS
    /\ Ext(p) \notin ignored_extensions
    /\ p \in Files
    /\ Exists(src, p)
    /\ fstate[p] \notin {"empty", "big"}

\* C25: every call of WorkerPool.submit by the watcher comes from a wait
\* thread or from the startup scan, and the path it passes qualifies at
\* that moment.
C25_SubmissionFilter ==
    [][/\ \A i \in 1..MaxEvents :
            (wt[i].pc # "submitted" /\ wt'[i].pc = "submitted")
               => Qualifies(wt[i].file)
       /\ \A p \in WatchPaths :
            (p \in scan'.sent /\ p \notin scan.sent) => Qualifies(p)
       /\ submits' # submits
            => \/ scan'.sent # scan.sent
               \/ \E i \in 1..MaxEvents :
                     wt[i].pc # "submitted" /\ wt'[i].pc = "submitted"]_vars

\* C25 witness: the scan submitted one file and a wait thread submitted
\* another after a notification
C25_Witness ==
    /\ scan.pc = "done"
    /\ scan.sent = {"a.pdf"}
    /\ \E i \in 1..MaxEvents : wt[i].pc = "submitted" /\ wt[i].file = "b.pdf"
    /\ submits = 2

\* C26: the observer's thread can take the next notification whatever the
\* wait threads and the pool are doing; handling it touches no wait
\* thread but the one it starts, and no job; and a wait thread started
\* after a stalled one reaches its end on its own.
C26_NeverStalled ==
    /\ [](Len(notes) < MaxEvents => \A p \in Files : ENABLED Notify(p))
    /\ [][Len(notes') > Len(notes)
            => /\ \A i \in 1..MaxEvents : i # Len(notes') => wt'[i] = wt[i]
               /\ queue' = queue
               /\ wk' = wk]_vars
    /\ \A i \in 2..MaxEvents :
          (wt[i].pc \in {"sleep", "try"})
             ~> (wt[i].pc \in {"submitted", "abandoned"})

\* C26 witness: a.pdf is still held by its writer and its wait thread is
\* retrying, while b.pdf, notified later, has been submitted
C26_Witness ==
    /\ wt[1].file = "a.pdf"
    /\ wt[1].pc = "try"
    /\ wt[1].attempt > 0
    /\ fstate["a.pdf"] = "locked"
    /\ wt[2].file = "b.pdf"
    /\ wt[2].pc = "submitted"
    /\ JobsFor("b.pdf") = 1

\* the jobs being executed
Executing == {w \in DOMAIN wk : wk[w].pc # "idle"}

\* C27: never more than worker_threads jobs are executing; submit can be
\* called in every state and only appends to the queue, leaving the
\* worker threads alone; and the queue is emptied again and again, so a
\* job queued while all threads were busy is started later.
C27_BoundedPool ==
    /\ [](Cardinality(Executing) <= num_workers)
    /\ [](submits < MaxJobs => \A f \in Files : ENABLED PoolSubmit(f))
    /\ [][submits' # submits
            => /\ wk' = wk
               /\ \/ queue' = queue
                  \/ Len(queue') = Len(queue) + 1
                       /\ SubSeq(queue', 1, Len(queue)) = queue]_vars
    /\ []<>(queue = <<>>)

\* C27 witness: every worker thread is busy and an accepted job is waiting
\* in the queue
C27_Witness ==
    /\ Cardinality(Executing) = num_workers
    /\ Len(queue) >= 1

\* C28: once the executor has been shut down no submission adds a job to
\* the queue, the submission of a wait thread that was still pending is
\* turned away without a job, and once WorkerPool.shutdown has returned
\* no worker thread starts a job and the ledger gets no entry.
C28_RejectAfterShutdown ==
    [][/\ phase \in {"draining", "returned", "exited"}
            => Len(queue') <= Len(queue)
       /\ \A i \in 1..MaxEvents :
            (wt[i].pc = "try" /\ wt'[i].pc = "raised")
               => queue' = queue /\ wk' = wk /\ ledger' = ledger
       /\ phase \in {"returned", "exited"}
            => /\ \A w \in Workers : wk'[w].pc = "idle"
               /\ ledger' = ledger]_vars

\* C28 witness: WorkerPool.shutdown has returned, and a wait thread that
\* was pending when the watcher was stopped had its submission turned
\* away: its file is still there and has no ledger entry
C28_Witness ==
    /\ phase = "returned"
    /\ \E i \in 1..MaxEvents :
          /\ wt[i].pc = "raised"
          /\ Exists(src, wt[i].file)
          /\ ledger[wt[i].file] = NoTime

\* the moves of one wait thread: started asleep, woken, retrying, and
\* then submitted or abandoned
WaitMove(a, b) ==
    \/ a.pc = "none" /\ b.pc = "sleep" /\ b.attempt = 0
    \/ a.pc = "sleep" /\ b = [a EXCEPT !.pc = "try"]
    \/ a.pc = "try" /\ b = [a EXCEPT !.attempt = a.attempt + 1]
    \/ a.pc = "try" /\ b.pc \in {"submitted", "abandoned"} /\ b.file = a.file

\* C29: the i-th notification has a wait thread, for its path, exactly
\* when it passed the debounce and the extension filter; a wait thread
\* moves only along sleep, try, then submitted or abandoned, where it
\* stays; submit is called once per step, by a thread that becomes
\* submitted with it; and every thread started reaches submitted or
\* abandoned.
C29_PerEventMachine ==
    /\ [](\A i \in 1..MaxEvents :
            /\ wt[i].pc # "none" <=> (i <= Len(notes) /\ notes[i].started)
            /\ wt[i].pc # "none" => wt[i].file = notes[i].path)
    /\ [][/\ Len(notes') > Len(notes)
              => LET n == notes'[Len(notes')] IN
                 /\ Len(notes') = Len(notes) + 1
                 /\ n.started <=> (~Debounced(recent, n.path, now)
                                      /\ ~Filtered(n.path))
          /\ \A i \in 1..MaxEvents :
                wt'[i] # wt[i] => WaitMove(wt[i], wt'[i])
          /\ submits' # submits
              => /\ submits' = submits + 1
                 /\ \E i \in 1..MaxEvents :
                       wt[i].pc = "try" /\ wt'[i].pc = "submitted"]_vars
    /\ \A i \in 1..MaxEvents :
          (wt[i].pc \in {"sleep", "try"})
             ~> (wt[i].pc \in {"submitted", "abandoned"})

\* C29 witness: the first notification started a thread that submitted
\* its file with one call; the second, for the same path, was debounced
\* and started none
C29_Witness ==
    /\ Len(notes) = 2
    /\ notes[1].started
    /\ wt[1].pc = "submitted"
    /\ submits = 1
    /\ notes[2].path = notes[1].path
    /\ ~notes[2].started
    /\ wt[2] = NoWait

\* C30 (as claimed): no two wait threads are waiting for the same path at
\* the same time.
C30_OneWaitPerPath ==
    \A i, j \in 1..MaxEvents :
        (i # j /\ wt[i].pc \in {"sleep", "try"} /\ wt[j].pc \in {"sleep", "try"})
            => wt[i].file # wt[j].file

\* C31 (as claimed): once the modified notification of the write that
\* filled the file has been delivered, the file is eventually submitted.
C31_FilledLater ==
    (Len(notes) = 2) ~> (\E i \in 1..MaxEvents : wt[i].pc = "submitted")

\* C32: the debounce time of a path changes only when a notification for
\* it is handled; one that comes less than 5 s after that time is
\* discarded and leaves the time as it is; one that comes 5 s or more
\* after it (or is the first) is accepted, takes the time, and starts a
\* wait if the extension passes; a wait thread that has abandoned its file
\* stays so, and a wait begins only with an accepted notification.
C32_DebounceWindow ==
    [][/\ recent' # recent => Len(notes') > Len(notes)
       /\ Len(notes') > Len(notes)
            => LET n == notes'[Len(notes')]
                   p == n.path
               IN /\ (recent[p] # NoTime
                        /\ now - recent[p] < _debounce_seconds * TicksPerSecond)
                       => recent' = recent /\ ~n.started /\ wt' = wt
                  /\ (recent[p] = NoTime
                        \/ now - recent[p] >= _debounce_seconds * TicksPerSecond)
                       => /\ recent' = [recent EXCEPT ![p] = now]
                          /\ n.started <=> ~Filtered(p)
       /\ \A i \in 1..MaxEvents :
            /\ wt[i].pc = "abandoned" => wt'[i] = wt[i]
            /\ (wt[i].pc = "none" /\ wt'[i].pc # "none")
                 => /\ Len(notes') = i
                    /\ notes'[i].started
                    /\ wt'[i].file = notes'[i].path]_vars

\* C32 witness: a.pdf was abandoned (it was empty); a notification for it
\* 5 s or more after the one before was accepted and started a new wait
C32_Witness ==
    /\ Len(notes) = 2
    /\ notes[1].path = "a.pdf"
    /\ notes[2].path = "a.pdf"
    /\ wt[1].pc = "abandoned"
    /\ notes[2].t - notes[1].t >= _debounce_seconds * TicksPerSecond
    /\ notes[2].started
    /\ wt[2].pc # "none"
    /\ recent["a.pdf"] = notes[2].t

\* the outcome records of a job that went through to its end
Outcomes == {"MOVED", "KEPT", "KEPT (no text)"}

\* C33: a job goes existence check -> extraction -> classification and
\* move/keep decision -> ledger update, never another way: a worker takes
\* a job only for a file that exists, reaches the ledger update from the
\* extraction only with blank text and from the decision only after the
\* move succeeded (MOVED) or was not due (KEPT); the ledger is written
\* only in the last step of a job, for that job's file; and a job that
\* ends with MOVED, KEPT or KEPT (no text) leaves the file marked.
C33_StepsInOrder ==
    [][epoch' = epoch =>
        /\ \A w \in Workers :
             /\ wk'[w].pc # wk[w].pc =>
                  <<wk[w].pc, wk'[w].pc>> \in
                     {<<"idle", "extract">>, <<"extract", "decide">>,
                      <<"extract", "mark">>, <<"decide", "mark">>,
                      <<"decide", "idle">>, <<"mark", "idle">>}
             /\ (wk[w].pc = "idle" /\ wk'[w].pc = "extract")
                  => Exists(src, wk'[w].file)
             /\ (wk[w].pc = "extract" /\ wk'[w].pc = "mark")
                  => IsBlank(wk'[w].text) /\ wk'[w].res = "KEPT (no text)"
             /\ (wk[w].pc = "extract" /\ wk'[w].pc = "decide")
                  => ~IsBlank(wk'[w].text) /\ ledger' = ledger
             /\ (wk[w].pc = "decide" /\ wk'[w].pc = "mark")
                  => /\ ledger' = ledger
                     /\ wk'[w].res \in {"MOVED", "KEPT"}
                     /\ wk'[w].res = "MOVED"
                          <=> ShouldMove(wk'[w].score)
                     /\ wk'[w].res = "MOVED"
                          => /\ Exists(src, wk[w].file)
                             /\ ~Exists(src', wk[w].file)
                             /\ \E q \in DestPaths :
                                   /\ q.base = wk[w].file
                                   /\ dst'[q] = src[wk[w].file].id
                     /\ wk'[w].res = "KEPT" => src' = src /\ dst' = dst
             /\ (wk[w].pc = "decide" /\ wk'[w].pc = "idle")
                  => ledger' = ledger /\ lastLog'.action = "ERROR"
        /\ ledger' # ledger
             => \E w \in Workers :
                  /\ MarkStep(w)
                  /\ \A g \in Files \ {wk[w].file} : ledger'[g] = ledger[g]
        /\ \A w \in Workers :
             MarkStep(w)
               => /\ ledger'[wk[w].file] # NoTime
                  /\ lastLog' = [file |-> wk[w].file, action |-> wk[w].res]
                  /\ wk[w].res \in Outcomes]_vars

\* C33 witness: a job has moved its file and then recorded it
C33_Witness ==
    /\ lastLog.action = "MOVED"
    /\ ledger[lastLog.file] # NoTime
    /\ ~Exists(src, lastLog.file)
    /\ \E q \in DestPaths : q.base = lastLog.file /\ dst[q] # 0

\* what a reader of the ledger file dsk finds for f
RecordedIn(dsk, f) == dsk.kind = "map" /\ dsk.map[f] # NoTime

\* C34 (as claimed): when _mark_processed returns for a file,
\* processed_files.json holds the entry for it, and an entry the file
\* holds for a finished job is still there after every later step of
\* another worker that has written the file.
C34_DurableRecord ==
    [][/\ \A w \in Workers :
            (/\ wk[w].pc \in {"save", "dump"}
             /\ wk'[w].pc = "idle"
             /\ lastLog'.action \in Outcomes)
               => RecordedIn(disk', wk[w].file)
       /\ \A f \in Files :
            (/\ Recorded(f)
             /\ \A w \in Workers :
                  ~(wk[w].file = f /\ wk[w].pc \in {"mark", "save", "dump"})
             /\ disk'.kind # "partial")
               => RecordedIn(disk', f)]_vars

\* destinationRoot/category/basename(path)
PlainPath(f, cat) == [cat |-> cat, base |-> f, ts |-> NoStamp]

\* destinationRoot/category/name_YYYYMMDD_HHMMSS.ext
StampedPath(f, cat, clock) == [cat |-> cat, base |-> f, ts |-> Stamp(clock)]

C36_OneOutcome ==
    [][\A w \in Workers :
         (wk[w].pc # "idle" /\ wk'[w].pc = "idle" /\ epoch' = epoch)
           => \/ /\ wk[w].res \in Outcomes
                 /\ lastLog' = [file |-> wk[w].file, action |-> wk[w].res]
              \/ /\ wk[w].res \notin Outcomes
                 /\ lastLog' = [file |-> wk[w].file, action |-> "ERROR"]]_vars

\* the places where the file with identity id is: source paths and
\* destination paths
Places(id) ==
    {<<"src", f>> : f \in {g \in Files : src[g].id = id}}
        \cup {<<"dst", q>> : q \in {r \in DestPaths : dst[r] = id}}

\* C37 (as claimed): every file that was dropped into the watched
\* directory is in exactly one place, its source path or one destination
\* path.
C37_Conservation ==
    \A id \in 1..(nextId - 1) : Cardinality(Places(id)) = 1

\* C38: while the process runs, the in-memory ledger changes only in a
\* step of _mark_processed, which sets the entry of the file of that job
\* and leaves every other entry as it was; a call of submit, a job that
\* finds its file missing and a job that fails before _mark_processed
\* leave the ledger as it was; and no entry is ever removed.
C38_LedgerFrame ==
    [][epoch' = epoch =>
        /\ ledger' # ledger
             => \E w \in Workers :
                  /\ wk[w].pc = "mark"
                  /\ wk'[w].pc \in {"idle", "save"}
                  /\ ledger'[wk[w].file] # NoTime
                  /\ \A g \in Files \ {wk[w].file} : ledger'[g] = ledger[g]
        /\ submits' # submits => ledger' = ledger
        /\ (Len(queue') < Len(queue) /\ wk' = wk)
             => /\ lastLog'.action = "ABSENT"
                /\ ledger' = ledger
        /\ \A w \in Workers :
             (FailStep(w) /\ wk[w].pc \in {"extract", "decide"})
               => ledger' = ledger
        /\ \A f \in Files : ledger[f] # NoTime => ledger'[f] # NoTime]_vars

\* C38 witness: a job has recorded a.pdf, and a later job for b.pdf has
\* failed and left the ledger with that one entry
C38_Witness ==
    /\ ledger["a.pdf"] # NoTime
    /\ ledger["b.pdf"] = NoTime
    /\ lastLog = [file |-> "b.pdf", action |-> "ERROR"]
    /\ submits = 2

\* C39 (as claimed): the answer to an /upload request that carried a
\* picture is the one computed from that picture.
C39_UploadIsolation ==
    \A r \in Requests :
        (upload.req[r].pc = "done" /\ upload.req[r].image # NoImage)
            => upload.req[r].resp = Answer(upload.req[r].image)

====
